---- MODULE Spec2Model ----
(***************************************************************************)
(* Navigation and dual-protocol response engine of alexa-mp3.              *)
(*                                                                         *)
(* A JavaScript string is modelled as a sequence of UTF-16 code units      *)
(* (naturals).  The token codec (btoa / atob / JSON.stringify /            *)
(* JSON.parse), the ContentReference codec (template literal / split /     *)
(* join) and the handlers are translated from the TypeScript sources.      *)
(***************************************************************************)
EXTENDS Integers, Sequences, FiniteSets, TLC

VARIABLES codec, db, req, resp, chain

vars == <<codec, db, req, resp, chain>>

(***************************************************************************)
(* Bounds                                                                  *)
(***************************************************************************)
\* longest entity id drawn for the token codec
MaxIdLen == 2
\* longest externally supplied JSON text / raw token string
MaxTextLen == 3
\* number of track rows the library may hold
MaxTracks == 3
\* number of playlist_tracks rows of the playlist
MaxPlaylistLen == 2
\* longest slot value of a play intent
MaxQueryLen == 2

(***************************************************************************)
(* JavaScript string primitives                                            *)
(***************************************************************************)
Min(a, b) == IF a < b THEN a ELSE b

\* s.slice(n): the suffix of s from 0-based index n
Slice(s, n) == SubSeq(s, n + 1, Len(s))

\* s.startsWith(p)
StartsWith(s, p) == Len(s) >= Len(p) /\ SubSeq(s, 1, Len(p)) = p

\* 0-based index of the first occurrence of sep in s at or after 0-based
\* position from, or -1 (String.prototype.indexOf)
RECURSIVE IndexOfFrom(_, _, _)
IndexOfFrom(s, sep, from) ==
  IF from + Len(sep) > Len(s) THEN -1
  ELSE IF SubSeq(s, from + 1, from + Len(sep)) = sep THEN from
  ELSE IndexOfFrom(s, sep, from + 1)

\* s.includes(sep)
Includes(s, sep) == IndexOfFrom(s, sep, 0) # -1

\* s.split(sep) for a non-empty separator: leftmost non-overlapping matches
RECURSIVE Split(_, _)
Split(s, sep) ==
  LET cut(i) ==
        IF i = -1 THEN <<s>>
        ELSE <<SubSeq(s, 1, i)>> \o Split(Slice(s, i + Len(sep)), sep)
  IN cut(IndexOfFrom(s, sep, 0))

\* parts.join(sep)
RECURSIVE Join(_, _)
Join(parts, sep) ==
  IF Len(parts) = 0 THEN <<>>
  ELSE IF Len(parts) = 1 THEN parts[1]
  ELSE parts[1] \o sep \o Join(Tail(parts), sep)

\* parts.slice(n) on an array
ArraySlice(parts, n) == SubSeq(parts, n + 1, Len(parts))

\* ASCII part of String.prototype.toLowerCase
LowerChar(c) == IF c >= 65 /\ c <= 90 THEN c + 32 ELSE c
ToLowerCase(s) == [i \in 1..Len(s) |-> LowerChar(s[i])]

\* Array.prototype.indexOf on an array of strings: 0-based, -1 when absent
RECURSIVE ArrayIndexOfFrom(_, _, _)
ArrayIndexOfFrom(list, x, from) ==
  IF from >= Len(list) THEN -1
  ELSE IF list[from + 1] = x THEN from
  ELSE ArrayIndexOfFrom(list, x, from + 1)
ArrayIndexOf(list, x) == ArrayIndexOfFrom(list, x, 0)

(***************************************************************************)
(* String literals of the sources, as code units                           *)
(***************************************************************************)
S_all == <<97, 108, 108>>
S_single == <<115, 105, 110, 103, 108, 101>>
S_track == <<116, 114, 97, 99, 107>>
S_artist == <<97, 114, 116, 105, 115, 116>>
S_playlist == <<112, 108, 97, 121, 108, 105, 115, 116>>
S_content == <<99, 111, 110, 116, 101, 110, 116>>
S_trackId == <<116, 114, 97, 99, 107, 73, 100>>
S_context == <<99, 111, 110, 116, 101, 120, 116>>
S_TRACK == <<84, 82, 65, 67, 75>>
S_ARTIST == <<65, 82, 84, 73, 83, 84>>
S_PLAYLIST == <<80, 76, 65, 89, 76, 73, 83, 84>>
S_ALL == <<65, 76, 76>>
S_ALBUM == <<65, 76, 66, 85, 77>>
S_sep == <<58, 58>>
S_hyphen == <<45>>
S_comma == <<44>>
S_artistPrefix == S_artist \o S_sep
S_playlistPrefix == S_playlist \o S_sep
S_contentAllLegacy == S_content \o S_hyphen \o S_all
S_contentAllCurrent == S_content \o S_sep \o S_all \o S_sep

(***************************************************************************)
(* Results of operations that may throw                                    *)
(***************************************************************************)
Ok(v) == [ok |-> TRUE, v |-> v]
Throws == [ok |-> FALSE, v |-> <<>>]

(***************************************************************************)
(* btoa / atob (WHATWG forgiving-base64)                                   *)
(***************************************************************************)
B64Char(i) ==
  IF i < 26 THEN 65 + i
  ELSE IF i < 52 THEN 97 + (i - 26)
  ELSE IF i < 62 THEN 48 + (i - 52)
  ELSE IF i = 62 THEN 43 ELSE 47

B64Val(c) ==
  IF c >= 65 /\ c <= 90 THEN c - 65
  ELSE IF c >= 97 /\ c <= 122 THEN c - 97 + 26
  ELSE IF c >= 48 /\ c <= 57 THEN c - 48 + 52
  ELSE IF c = 43 THEN 62
  ELSE IF c = 47 THEN 63
  ELSE -1

RECURSIVE B64Encode(_)
B64Encode(b) ==
  IF Len(b) = 0 THEN <<>>
  ELSE IF Len(b) = 1 THEN
    <<B64Char(b[1] \div 4), B64Char((b[1] % 4) * 16), 61, 61>>
  ELSE IF Len(b) = 2 THEN
    <<B64Char(b[1] \div 4), B64Char((b[1] % 4) * 16 + b[2] \div 16),
      B64Char((b[2] % 16) * 4), 61>>
  ELSE
    <<B64Char(b[1] \div 4), B64Char((b[1] % 4) * 16 + b[2] \div 16),
      B64Char((b[2] % 16) * 4 + b[3] \div 64), B64Char(b[3] % 64)>>
    \o B64Encode(SubSeq(b, 4, Len(b)))

\* btoa throws InvalidCharacterError on a code unit above U+00FF
btoa(s) ==
  IF \E i \in 1..Len(s) : s[i] > 255 THEN Throws ELSE Ok(B64Encode(s))

RECURSIVE B64Decode(_)
B64Decode(d) ==
  IF Len(d) < 2 THEN <<>>
  ELSE IF Len(d) = 2 THEN
    <<B64Val(d[1]) * 4 + B64Val(d[2]) \div 16>>
  ELSE IF Len(d) = 3 THEN
    <<B64Val(d[1]) * 4 + B64Val(d[2]) \div 16,
      (B64Val(d[2]) % 16) * 16 + B64Val(d[3]) \div 4>>
  ELSE
    <<B64Val(d[1]) * 4 + B64Val(d[2]) \div 16,
      (B64Val(d[2]) % 16) * 16 + B64Val(d[3]) \div 4,
      (B64Val(d[3]) % 4) * 64 + B64Val(d[4])>>
    \o B64Decode(SubSeq(d, 5, Len(d)))

IsAsciiWs(c) == c \in {9, 10, 12, 13, 32}

\* removal of one or two trailing "=" when the length is a multiple of 4
StripPadding(d) ==
  IF Len(d) % 4 = 0 /\ Len(d) > 0 /\ d[Len(d)] = 61
  THEN IF d[Len(d) - 1] = 61 THEN SubSeq(d, 1, Len(d) - 2)
       ELSE SubSeq(d, 1, Len(d) - 1)
  ELSE d

atob(s) ==
  LET decode(d) ==
        IF Len(d) % 4 = 1 \/ (\E i \in 1..Len(d) : B64Val(d[i]) = -1)
        THEN Throws
        ELSE Ok(B64Decode(d))
  IN decode(StripPadding(SelectSeq(s, LAMBDA c : ~IsAsciiWs(c))))

(***************************************************************************)
(* JSON values.  Every value is a record [k, s, m]: k the kind, s the      *)
(* string payload (string contents, number text), m the members of an      *)
(* object (key, val) or the elements of an array (val).                    *)
(***************************************************************************)
JNull == [k |-> "null", s |-> <<>>, m |-> <<>>]
JUndefined == [k |-> "undefined", s |-> <<>>, m |-> <<>>]
JTrue == [k |-> "true", s |-> <<>>, m |-> <<>>]
JFalse == [k |-> "false", s |-> <<>>, m |-> <<>>]
JNum(text) == [k |-> "num", s |-> text, m |-> <<>>]
JStr(str) == [k |-> "str", s |-> str, m |-> <<>>]
JArr(items) == [k |-> "arr", s |-> <<>>, m |-> items]
JObj(members) == [k |-> "obj", s |-> <<>>, m |-> members]

\* property assignment while parsing: a repeated key keeps its first
\* position and takes the last value
RECURSIVE PutMember(_, _, _)
PutMember(members, key, val) ==
  IF Len(members) = 0 THEN <<[key |-> key, val |-> val]>>
  ELSE IF members[1].key = key
       THEN <<[key |-> key, val |-> val]>> \o Tail(members)
       ELSE <<members[1]>> \o PutMember(Tail(members), key, val)

\* property read obj[key] (undefined when absent or not an object)
RECURSIVE GetMember(_, _)
GetMember(members, key) ==
  IF Len(members) = 0 THEN JUndefined
  ELSE IF members[1].key = key THEN members[1].val
  ELSE GetMember(Tail(members), key)

GetProp(v, key) == IF v.k = "obj" THEN GetMember(v.m, key) ELSE JUndefined

(***************************************************************************)
(* JSON.stringify                                                          *)
(***************************************************************************)
HexDigit(n) == IF n < 10 THEN 48 + n ELSE 87 + n

\* a quoting that forgets to escape the backslash
QuoteChar_NoBackslash(c) ==
  IF c = 34 THEN <<92, 34>>
  ELSE IF c < 32 THEN <<92, 117, 48, 48, HexDigit(c \div 16), HexDigit(c % 16)>>
  ELSE <<c>>

QuoteChar(c) ==
  IF c = 34 THEN <<92, 34>>
  ELSE IF c = 92 THEN <<92, 92>>
  ELSE IF c = 8 THEN <<92, 98>>
  ELSE IF c = 12 THEN <<92, 102>>
  ELSE IF c = 10 THEN <<92, 110>>
  ELSE IF c = 13 THEN <<92, 114>>
  ELSE IF c = 9 THEN <<92, 116>>
  ELSE IF c < 32 THEN <<92, 117, 48, 48, HexDigit(c \div 16), HexDigit(c % 16)>>
  ELSE <<c>>

RECURSIVE QuoteBody(_)
QuoteBody(s) ==
  IF Len(s) = 0 THEN <<>> ELSE QuoteChar(s[1]) \o QuoteBody(Tail(s))

QuoteJSONString(s) == <<34>> \o QuoteBody(s) \o <<34>>

RECURSIVE JSONstringify(_)
RECURSIVE StringifyItems(_, _)
JSONstringify(v) ==
  CASE v.k = "str" -> QuoteJSONString(v.s)
    [] v.k = "num" -> v.s
    [] v.k = "true" -> <<116, 114, 117, 101>>
    [] v.k = "false" -> <<102, 97, 108, 115, 101>>
    [] v.k \in {"obj", "arr"} ->
         <<IF v.k = "obj" THEN 123 ELSE 91>>
         \o StringifyItems(v.m, v.k = "obj")
         \o <<IF v.k = "obj" THEN 125 ELSE 93>>
    [] OTHER -> <<110, 117, 108, 108>>

\* the members of an object ("key":value) or the elements of an array,
\* separated by commas
StringifyItems(m, isObj) ==
  IF Len(m) = 0 THEN <<>>
  ELSE (IF isObj THEN QuoteJSONString(m[1].key) \o <<58>> ELSE <<>>)
       \o JSONstringify(m[1].val)
       \o (IF Len(m) = 1 THEN <<>> ELSE <<44>> \o StringifyItems(Tail(m), isObj))

(***************************************************************************)
(* JSON.parse (ECMA-404 grammar, recursive descent)                        *)
(***************************************************************************)
PFail == [ok |-> FALSE, v |-> JNull, p |-> 0]
POk(v, p) == [ok |-> TRUE, v |-> v, p |-> p]

IsJsonWs(c) == c \in {32, 9, 10, 13}
IsDigit(c) == c >= 48 /\ c <= 57

RECURSIVE SkipWs(_, _)
SkipWs(t, p) == IF p <= Len(t) /\ IsJsonWs(t[p]) THEN SkipWs(t, p + 1) ELSE p

RECURSIVE SkipDigits(_, _)
SkipDigits(t, p) == IF p <= Len(t) /\ IsDigit(t[p]) THEN SkipDigits(t, p + 1) ELSE p

HexVal(c) ==
  IF c >= 48 /\ c <= 57 THEN c - 48
  ELSE IF c >= 97 /\ c <= 102 THEN c - 87
  ELSE IF c >= 65 /\ c <= 70 THEN c - 55
  ELSE -1

UnescapeChar(e) ==
  CASE e = 34 -> 34 [] e = 92 -> 92 [] e = 47 -> 47 [] e = 98 -> 8
    [] e = 102 -> 12 [] e = 110 -> 10 [] e = 114 -> 13 [] e = 116 -> 9
    [] OTHER -> -1

\* p is the position after the opening quote
RECURSIVE ParseStringBody(_, _, _)
ParseStringBody(t, p, acc) ==
  LET \* code units taken by the character at p, 0 when it is malformed
      width ==
        IF t[p] # 92 THEN 1
        ELSE IF p + 1 > Len(t) THEN 0
        ELSE IF t[p + 1] = 117
             THEN IF p + 5 <= Len(t) /\ \A i \in 2..5 : HexVal(t[p + i]) # -1
                  THEN 6 ELSE 0
        ELSE IF UnescapeChar(t[p + 1]) # -1 THEN 2 ELSE 0
      unit ==
        IF t[p] # 92 THEN t[p]
        ELSE IF t[p + 1] = 117
             THEN HexVal(t[p + 2]) * 4096 + HexVal(t[p + 3]) * 256
                  + HexVal(t[p + 4]) * 16 + HexVal(t[p + 5])
        ELSE UnescapeChar(t[p + 1])
  IN IF p > Len(t) THEN PFail
     ELSE IF t[p] = 34 THEN POk(JStr(acc), p + 1)
     ELSE IF t[p] < 32 THEN PFail
     ELSE IF width = 0 THEN PFail
     ELSE ParseStringBody(t, p + width, Append(acc, unit))

\* number = [-] int [frac] [exp]; returns the position after it, 0 on error
NumberEnd(t, p) ==
  LET digits(g) == IF g <= Len(t) /\ IsDigit(t[g]) THEN SkipDigits(t, g) ELSE 0
      int(a) ==
        IF a > Len(t) \/ ~IsDigit(t[a]) THEN 0
        ELSE IF t[a] = 48 THEN a + 1 ELSE SkipDigits(t, a)
      frac(b) ==
        IF b = 0 THEN 0
        ELSE IF b <= Len(t) /\ t[b] = 46
             THEN IF b + 1 <= Len(t) /\ IsDigit(t[b + 1])
                  THEN SkipDigits(t, b + 1) ELSE 0
        ELSE b
      exp(c) ==
        IF c = 0 THEN 0
        ELSE IF c <= Len(t) /\ t[c] \in {69, 101}
             THEN digits(IF c + 1 <= Len(t) /\ t[c + 1] \in {43, 45}
                         THEN c + 2 ELSE c + 1)
        ELSE c
  IN exp(frac(int(IF p <= Len(t) /\ t[p] = 45 THEN p + 1 ELSE p)))

RECURSIVE ParseValue(_, _)
RECURSIVE ParseItems(_, _, _, _)
ParseValue(t, p0) ==
  LET value(p) ==
        LET number(e) == IF e = 0 THEN PFail ELSE POk(JNum(SubSeq(t, p, e - 1)), e)
        IN IF p > Len(t) THEN PFail
           ELSE IF t[p] \in {123, 91}
             THEN ParseItems(t, SkipWs(t, p + 1), <<>>, t[p] = 123)
           ELSE IF t[p] = 34 THEN ParseStringBody(t, p + 1, <<>>)
           ELSE IF StartsWith(Slice(t, p - 1), <<110, 117, 108, 108>>)
             THEN POk(JNull, p + 4)
           ELSE IF StartsWith(Slice(t, p - 1), <<116, 114, 117, 101>>)
             THEN POk(JTrue, p + 4)
           ELSE IF StartsWith(Slice(t, p - 1), <<102, 97, 108, 115, 101>>)
             THEN POk(JFalse, p + 5)
           ELSE IF t[p] = 45 \/ IsDigit(t[p]) THEN number(NumberEnd(t, p))
           ELSE PFail
  IN value(SkipWs(t, p0))

\* the members of an object (isObj) or the elements of an array from
\* position p, which follows the opening bracket or a comma; acc holds the
\* items parsed so far and is empty exactly after the opening bracket
ParseItems(t, p, acc, isObj) ==
  LET close == IF isObj THEN 125 ELSE 93
      container(items) == IF isObj THEN JObj(items) ELSE JArr(items)
      after(items, e) ==
        IF e > Len(t) THEN PFail
        ELSE IF t[e] = close THEN POk(container(items), e + 1)
        ELSE IF t[e] = 44 THEN ParseItems(t, SkipWs(t, e + 1), items, isObj)
        ELSE PFail
      item(key, val) ==
        IF ~val.ok THEN PFail
        ELSE after(IF isObj THEN PutMember(acc, key, val.v)
                   ELSE Append(acc, [key |-> <<>>, val |-> val.v]),
                   SkipWs(t, val.p))
      colon(key, c) ==
        IF c > Len(t) \/ t[c] # 58 THEN PFail
        ELSE item(key.v.s, ParseValue(t, c + 1))
      member(key) == IF ~key.ok THEN PFail ELSE colon(key, SkipWs(t, key.p))
  IN IF Len(acc) = 0 /\ p <= Len(t) /\ t[p] = close
     THEN POk(container(<<>>), p + 1)
     ELSE IF isObj
       THEN IF p > Len(t) \/ t[p] # 34 THEN PFail
            ELSE member(ParseStringBody(t, p + 1, <<>>))
       ELSE item(<<>>, ParseValue(t, p))

\* JSON.parse throws SyntaxError unless the whole text is one value
JSONparse(t) ==
  LET whole(r) ==
        IF r.ok /\ SkipWs(t, r.p) = Len(t) + 1 THEN Ok(r.v)
        ELSE [ok |-> FALSE, v |-> JNull]
  IN whole(ParseValue(t, 1))

(***************************************************************************)
(* Token codec (Protocol B)                                                *)
(***************************************************************************)
\* the PlaybackToken object literal { trackId, context }
PlaybackToken(trackId, context) ==
  JObj(<<[key |-> S_trackId, val |-> JStr(trackId)],
         [key |-> S_context, val |-> JStr(context)]>>)

\* encodeToken: btoa(JSON.stringify(token)); may throw
encodeToken(token) == btoa(JSONstringify(token))

\* decodeToken: JSON.parse(atob(raw)), null when either throws
decodeToken(raw) ==
  LET parsed(json) == IF ~json.ok THEN JNull ELSE json.v
      decoded(bin) == IF ~bin.ok THEN JNull ELSE parsed(JSONparse(bin.v))
  IN decoded(atob(raw))

\* a value that is a PlaybackToken record: an object whose trackId and
\* context are strings
IsTokenRecord(v) ==
  /\ v.k = "obj"
  /\ GetProp(v, S_trackId).k = "str"
  /\ GetProp(v, S_context).k = "str"

\* JavaScript truthiness, as tested by `if (token)` / `!token`
Truthy(v) ==
  CASE v.k \in {"null", "undefined", "false"} -> FALSE
    [] v.k = "str" -> Len(v.s) > 0
    [] v.k = "num" ->
         LET e == Min(IF IndexOfFrom(v.s, <<101>>, 0) = -1 THEN Len(v.s)
                      ELSE IndexOfFrom(v.s, <<101>>, 0),
                      IF IndexOfFrom(v.s, <<69>>, 0) = -1 THEN Len(v.s)
                      ELSE IndexOfFrom(v.s, <<69>>, 0))
         IN \E i \in 1..e : v.s[i] \in 49..57
    [] OTHER -> TRUE

(***************************************************************************)
(* ContentReference codec (Protocol A)                                     *)
(***************************************************************************)
\* a contentId that keeps the entity type in upper case
currentFormat_UpperCase(entityType, entityId) ==
  S_content \o S_sep \o entityType \o S_sep \o entityId

\* the template literal `content::${entityType.toLowerCase()}::${entityId}`
currentFormat(entityType, entityId) ==
  S_content \o S_sep \o ToLowerCase(entityType) \o S_sep \o entityId

\* the hyphen format of older clients, "content-{type}-{entityId}"
legacyFormat(kind, entityId) ==
  S_content \o S_hyphen \o kind \o S_hyphen \o entityId

\* segments[1] ?? "" on an array
SecondOrEmpty(parts) == IF Len(parts) >= 2 THEN parts[2] ELSE <<>>

\* a legacy parsing that takes only the third hyphen segment as the id
parseContentId_ThirdSegment(contentId) ==
  LET current(segments) ==
        [type |-> SecondOrEmpty(segments),
         entityId |-> Join(ArraySlice(segments, 2), S_sep)]
      legacy(parts) ==
        [type |-> SecondOrEmpty(parts),
         entityId |-> IF Len(parts) >= 3 THEN parts[3] ELSE <<>>]
  IN IF Includes(contentId, S_sep) THEN current(Split(contentId, S_sep))
     ELSE IF contentId = S_contentAllLegacy THEN [type |-> S_all, entityId |-> <<>>]
     ELSE legacy(Split(contentId, S_hyphen))

\* the contentId parsing of handleInitiate: current separator first, then
\* the legacy sentinel, then the legacy hyphen split
parseContentId(contentId) ==
  LET current(segments) ==
        [type |-> SecondOrEmpty(segments),
         entityId |-> Join(ArraySlice(segments, 2), S_sep)]
      legacy(parts) ==
        [type |-> SecondOrEmpty(parts),
         entityId |-> Join(ArraySlice(parts, 2), S_hyphen)]
  IN IF Includes(contentId, S_sep) THEN current(Split(contentId, S_sep))
     ELSE IF contentId = S_contentAllLegacy THEN [type |-> S_all, entityId |-> <<>>]
     ELSE legacy(Split(contentId, S_hyphen))

(***************************************************************************)
(* Storage (TursoDb).  db.tracks is the tracks table in added_at DESC      *)
(* order, db.playlists the playlists table in created_at DESC order, each  *)
(* row with its playlist_tracks rows in position order, db.artists the     *)
(* artists table.                                                          *)
(***************************************************************************)
Digit(i) == 48 + i

\* ids of the rows the library may hold; they cover ids with a hyphen and
\* ids with the "::" separator
TrackId(i) ==
  CASE i % 3 = 1 -> <<116, 45, Digit(i)>>
    [] i % 3 = 2 -> <<116, 58, 58, Digit(i)>>
    [] OTHER -> <<116, Digit(i)>>
ArtistId(j) == IF j = 1 THEN <<97, 45, 49>> ELSE <<97, 58, 58, Digit(j)>>
PlaylistId == <<112, 58, 58, 45, 49>>
\* ids that name no row
UnknownTrackId == <<116, 45, 48>>
UnknownArtistId == <<97, 45, 48>>
UnknownPlaylistId == <<112, 45, 48>>

\* the artist of track i (deriveArtistId of its artist name)
ArtistOf(i) == ArtistId(IF i % 2 = 0 THEN 1 ELSE 2)

\* titles of the rows: "a b", "Ab" and "b"
Title(i) ==
  CASE i % 3 = 1 -> <<97, 32, 98>>
    [] i % 3 = 2 -> <<65, 98>>
    [] OTHER -> <<98>>

\* the rows of the artists table: "B a" without keywords, and "aa" with the
\* keywords "a b"
ArtistRow(j) ==
  IF j = 1 THEN [id |-> ArtistId(1), name |-> <<66, 32, 97>>, keywords |-> <<>>]
  ELSE [id |-> ArtistId(j), name |-> <<97, 97>>, keywords |-> <<97, 32, 98>>]
Artists == <<ArtistRow(1), ArtistRow(2)>>

\* the name of the playlist: "a B"
PlaylistName == <<97, 32, 66>>

TrackRow(i) ==
  [id |-> TrackId(i), title |-> Title(i),
   artist |-> ArtistRow(IF i % 2 = 0 THEN 1 ELSE 2).name, artistId |-> ArtistOf(i)]
NoTrack == [id |-> <<>>, title |-> <<>>, artist |-> <<>>, artistId |-> <<>>]

Some(v) == [some |-> TRUE, v |-> v]
None == [some |-> FALSE, v |-> NoTrack]

\* SELECT * FROM tracks ORDER BY added_at DESC
getTracks(d) == d.tracks

\* the id query with the opposite order (ORDER BY added_at ASC)
getTrackIds_Ascending(d) ==
  [i \in 1..Len(d.tracks) |-> d.tracks[Len(d.tracks) + 1 - i].id]

\* SELECT id FROM tracks ORDER BY added_at DESC
getTrackIds(d) == [i \in 1..Len(d.tracks) |-> d.tracks[i].id]

\* SELECT * FROM tracks WHERE artist_id = ? ORDER BY added_at DESC
getTracksByArtistId(d, artistId) ==
  SelectSeq(d.tracks, LAMBDA t : t.artistId = artistId)

\* SELECT * FROM tracks WHERE id = ?  (Track | null)
getTrack(d, id) ==
  LET first(rows) == IF Len(rows) = 0 THEN None ELSE Some(rows[1])
  IN first(SelectSeq(d.tracks, LAMBDA t : t.id = id))

\* rowToPlaylist: GROUP_CONCAT(track_id, ',') of the playlist_tracks rows,
\* split on "," (NULL or "" gives [])
rowToPlaylist(row) ==
  LET trackIds(rawTrackIds) ==
        IF Len(row.trackIds) > 0 /\ Len(rawTrackIds) > 0
        THEN Split(rawTrackIds, S_comma) ELSE <<>>
  IN [id |-> row.id, name |-> row.name,
      trackIds |-> trackIds(Join(row.trackIds, S_comma))]

NoPlaylist == [id |-> <<>>, name |-> <<>>, trackIds |-> <<>>]

\* an archiveTrack that leaves the playlist_tracks rows of the track
archiveTrack_KeepsRows(d, id) ==
  IF Len(SelectSeq(d.tracks, LAMBDA t : t.id = id)) = 0 THEN d
  ELSE [d EXCEPT !.tracks = SelectSeq(d.tracks, LAMBDA t : t.id # id)]

\* archiveTrack: one write transaction that copies the row into
\* archived_tracks and deletes it from playlist_tracks and tracks; without
\* a row of that id it rolls back and storage is unchanged
archiveTrack(d, id) ==
  LET without(trackIds) == SelectSeq(trackIds, LAMBDA t : t # id)
      unlisted(playlists) ==
        [i \in 1..Len(playlists) |->
           [playlists[i] EXCEPT !.trackIds = without(playlists[i].trackIds)]]
  IN IF ~getTrack(d, id).some THEN d
     ELSE [d EXCEPT !.tracks = SelectSeq(d.tracks, LAMBDA t : t.id # id),
                    !.playlists = unlisted(d.playlists)]

\* SELECT ... FROM playlists p WHERE p.id = ?  (Playlist | null)
getPlaylist(d, id) ==
  LET first(rows) ==
        IF Len(rows) = 0 THEN [some |-> FALSE, v |-> NoPlaylist]
        ELSE [some |-> TRUE, v |-> rowToPlaylist(rows[1])]
  IN first(SelectSeq(d.playlists, LAMBDA p : p.id = id))

\* SELECT t.* FROM tracks t JOIN playlist_tracks pt ... ORDER BY pt.position
RECURSIVE JoinTracks(_, _)
JoinTracks(d, ids) ==
  LET joined(t) == IF t.some THEN <<t.v>> ELSE <<>>
  IN IF Len(ids) = 0 THEN <<>>
     ELSE joined(getTrack(d, ids[1])) \o JoinTracks(d, Tail(ids))

getPlaylistTracks(d, playlistId) ==
  LET of(rows) == IF Len(rows) = 0 THEN <<>> ELSE JoinTracks(d, rows[1].trackIds)
  IN of(SelectSeq(d.playlists, LAMBDA p : p.id = playlistId))

\* the SQLite LIKE operator: "%" matches any run of characters, "_" one
\* character, letters of ASCII match without regard to case
RECURSIVE Like(_, _)
Like(pattern, text) ==
  IF Len(pattern) = 0 THEN Len(text) = 0
  ELSE IF pattern[1] = 37
    THEN Like(Tail(pattern), text) \/ (Len(text) > 0 /\ Like(pattern, Tail(text)))
  ELSE IF Len(text) = 0 THEN FALSE
  ELSE IF pattern[1] = 95 \/ LowerChar(pattern[1]) = LowerChar(text[1])
    THEN Like(Tail(pattern), Tail(text))
  ELSE FALSE

\* the template literal `%${query}%`
Contains(query) == <<37>> \o query \o <<37>>

\* the characters the regular expression \s matches
IsJsWhitespace(c) ==
  c \in {9, 10, 11, 12, 13, 32, 160, 5760, 8232, 8233, 8239, 8287, 12288, 65279}
  \/ (c >= 8192 /\ c <= 8202)

\* query.replace(/\s+/g, "")
RemoveWhitespace(query) == SelectSeq(query, LAMBDA c : ~IsJsWhitespace(c))

\* REPLACE(x, ' ', '')
RemoveSpaces(x) == SelectSeq(x, LAMBDA c : c # 32)

\* SELECT * FROM tracks WHERE REPLACE(title, ' ', '') LIKE ?
\* ORDER BY added_at DESC
searchTracksByTitle(d, query) ==
  LET matching(pattern) ==
        SelectSeq(d.tracks, LAMBDA t : Like(pattern, RemoveSpaces(t.title)))
  IN matching(Contains(RemoveWhitespace(query)))

\* SELECT t.* FROM tracks t JOIN artists a ON t.artist_id = a.id
\* WHERE REPLACE(a.name, ' ', '') LIKE ? OR REPLACE(a.keywords, ' ', '') LIKE ?
\* ORDER BY t.added_at DESC
searchTracksByArtist(d, query) ==
  LET matching(pattern) ==
        SelectSeq(d.tracks, LAMBDA t :
          \E j \in 1..Len(d.artists) :
            /\ t.artistId = d.artists[j].id
            /\ \/ Like(pattern, RemoveSpaces(d.artists[j].name))
               \/ Like(pattern, RemoveSpaces(d.artists[j].keywords)))
  IN matching(Contains(RemoveWhitespace(query)))

\* SELECT ... FROM playlists p WHERE p.name LIKE ? ORDER BY p.created_at DESC
searchPlaylistsByName(d, query) ==
  LET matching(rows) == [i \in 1..Len(rows) |-> rowToPlaylist(rows[i])]
  IN matching(SelectSeq(d.playlists, LAMBDA p : Like(Contains(query), p.name)))

(***************************************************************************)
(* resolve-handler.ts: the server side of Protocol A.  A Response is       *)
(* [status, ...the fields of its JSON body]; an absent field is a None.    *)
(***************************************************************************)
Undefined == <<>>

\* JavaScript truthiness of a string or undefined (`if (playlistId)`)
StrTruthy(x) == Len(x) > 0

ResolveBody(status, found, track, tracks, hasTracks) ==
  [status |-> status, found |-> found, track |-> track,
   hasTracks |-> hasTracks, tracks |-> tracks,
   totalCount |-> IF track.some THEN 1 ELSE Len(tracks)]

handleResolveEntity(d, entityId, entityType) ==
  LET notFound == ResolveBody(404, FALSE, None, <<>>, FALSE)
      ofTracks(tracks) ==
        IF Len(tracks) = 0 THEN notFound
        ELSE ResolveBody(200, TRUE, None, tracks, TRUE)
      ofTrack(track) ==
        IF ~track.some THEN notFound
        ELSE ResolveBody(200, TRUE, track, <<>>, FALSE)
      ofPlaylist(playlist) ==
        IF ~playlist.some THEN notFound
        ELSE ResolveBody(200, TRUE, None, getPlaylistTracks(d, entityId), TRUE)
  IN IF entityType = S_ALL \/ (~StrTruthy(entityId) /\ ~StrTruthy(entityType))
       THEN ofTracks(getTracks(d))
     ELSE IF entityType = S_TRACK THEN ofTrack(getTrack(d, entityId))
     ELSE IF entityType = S_ARTIST THEN ofTracks(getTracksByArtistId(d, entityId))
     ELSE IF entityType = S_PLAYLIST THEN ofPlaylist(getPlaylist(d, entityId))
     ELSE ResolveBody(400, FALSE, None, <<>>, FALSE)

\* the JSON body of /api/next and /api/previous
NavBody(status, has, track, further) ==
  [status |-> status, has |-> has, track |-> track, flag |-> further]

\* the list both navigation handlers walk; [some |-> FALSE] is the 404
NavTrackList(d, playlistId) ==
  LET of(playlist) ==
        IF ~playlist.some THEN [some |-> FALSE, v |-> <<>>]
        ELSE [some |-> TRUE, v |-> playlist.v.trackIds]
  IN IF StrTruthy(playlistId) THEN of(getPlaylist(d, playlistId))
     ELSE [some |-> TRUE, v |-> getTrackIds(d)]

\* a lookahead that tests the current index instead of the next one
hasFurtherNextOf_OffByOne(currentIndex, length) == currentIndex < length - 1

\* hasFurtherNext = currentIndex + 1 < trackList.length - 1
hasFurtherNextOf(currentIndex, length) == currentIndex + 1 < length - 1

\* hasNextFromHere = currentIndex - 1 < trackList.length - 1
hasNextFromHereOf(currentIndex, length) == currentIndex - 1 < length - 1

\* a handler at its last await: the value it returns without a lookup, or
\* the id it hands to db.getTrack with the index and list length it keeps
Returns(result) ==
  [lookup |-> FALSE, result |-> result, targetId |-> <<>>,
   currentIndex |-> -1, length |-> 0]
LooksUp(targetId, currentIndex, length) ==
  [lookup |-> TRUE, result |-> None, targetId |-> targetId,
   currentIndex |-> currentIndex, length |-> length]

\* handleGetNextTrack up to `await db.getTrack(nextTrackId)`
NextTrackTarget(d, currentTrackId, playlistId) ==
  LET none == NavBody(200, FALSE, None, FALSE)
      from(trackList, currentIndex) ==
        IF currentIndex = -1 \/ currentIndex >= Len(trackList) - 1 THEN Returns(none)
        ELSE IF ~StrTruthy(trackList[currentIndex + 2]) THEN Returns(none)
        ELSE LooksUp(trackList[currentIndex + 2], currentIndex, Len(trackList))
      walk(list) ==
        IF ~list.some THEN Returns(NavBody(404, FALSE, None, FALSE))
        ELSE from(list.v, ArrayIndexOf(list.v, currentTrackId))
  IN walk(NavTrackList(d, playlistId))

\* handleGetNextTrack from the awaited db.getTrack on
NextTrackFound(target, nextTrack) ==
  IF ~nextTrack.some THEN NavBody(200, FALSE, None, FALSE)
  ELSE NavBody(200, TRUE, nextTrack,
               hasFurtherNextOf(target.currentIndex, target.length))

handleGetNextTrack(d, currentTrackId, playlistId) ==
  LET answer(target) ==
        IF ~target.lookup THEN target.result
        ELSE NextTrackFound(target, getTrack(d, target.targetId))
  IN answer(NextTrackTarget(d, currentTrackId, playlistId))

\* a previous-track search that goes back to the head of the list
PreviousTrackTarget_ToHead(d, currentTrackId, playlistId) ==
  LET none == NavBody(200, FALSE, None, FALSE)
      from(trackList, currentIndex) ==
        IF currentIndex <= 0 THEN Returns(none)
        ELSE IF ~StrTruthy(trackList[1]) THEN Returns(none)
        ELSE LooksUp(trackList[1], currentIndex, Len(trackList))
      walk(list) ==
        IF ~list.some THEN Returns(NavBody(404, FALSE, None, FALSE))
        ELSE from(list.v, ArrayIndexOf(list.v, currentTrackId))
  IN walk(NavTrackList(d, playlistId))

\* handleGetPreviousTrack up to `await db.getTrack(prevTrackId)`
PreviousTrackTarget(d, currentTrackId, playlistId) ==
  LET none == NavBody(200, FALSE, None, FALSE)
      from(trackList, currentIndex) ==
        IF currentIndex <= 0 THEN Returns(none)
        ELSE IF ~StrTruthy(trackList[currentIndex]) THEN Returns(none)
        ELSE LooksUp(trackList[currentIndex], currentIndex, Len(trackList))
      walk(list) ==
        IF ~list.some THEN Returns(NavBody(404, FALSE, None, FALSE))
        ELSE from(list.v, ArrayIndexOf(list.v, currentTrackId))
  IN walk(NavTrackList(d, playlistId))

\* handleGetPreviousTrack from the awaited db.getTrack on
PreviousTrackFound(target, prevTrack) ==
  IF ~prevTrack.some THEN NavBody(200, FALSE, None, FALSE)
  ELSE NavBody(200, TRUE, prevTrack,
               hasNextFromHereOf(target.currentIndex, target.length))

handleGetPreviousTrack(d, currentTrackId, playlistId) ==
  LET answer(target) ==
        IF ~target.lookup THEN target.result
        ELSE PreviousTrackFound(target, getTrack(d, target.targetId))
  IN answer(PreviousTrackTarget(d, currentTrackId, playlistId))

(***************************************************************************)
(* partykit-client.ts: the Lambda's calls to the server.  A response that  *)
(* is not ok (status outside 200..299) becomes the not-found result.       *)
(***************************************************************************)
ResOk(res) == res.status >= 200 /\ res.status <= 299

resolveEntity(d, entityId, entityType) ==
  LET json(res) ==
        IF ~ResOk(res) THEN ResolveBody(res.status, FALSE, None, <<>>, FALSE)
        ELSE res
  IN json(handleResolveEntity(d, entityId, entityType))

\* getNextTrack(currentTrackId, playlistId?) -> NextPrevResult
\* `if (!res.ok) return { hasNext: false }; return res.json()` and its
\* twin for hasPrevious
NextPrevResult(res) ==
  IF ~ResOk(res) THEN NavBody(res.status, FALSE, None, FALSE) ELSE res

getNextTrack(d, currentTrackId, playlistId) ==
  NextPrevResult(handleGetNextTrack(d, currentTrackId, playlistId))

getPreviousTrack(d, currentTrackId, playlistId) ==
  NextPrevResult(handleGetPreviousTrack(d, currentTrackId, playlistId))

(***************************************************************************)
(* response-builder.ts (Protocol A responses)                              *)
(***************************************************************************)
\* buildItem: the item id and the enablement of its NEXT control
buildItem(track, hasNext) == [id |-> track.id, nextEnabled |-> hasNext]

buildGetPlayableContentResponse(contentId) ==
  [name |-> "GetPlayableContent.Response", contentId |-> contentId]

buildContentNotFoundResponse ==
  [name |-> "ErrorResponse", type |-> "CONTENT_NOT_FOUND"]

buildInitiateResponse(track, hasNext) ==
  [name |-> "Initiate.Response", firstItem |-> buildItem(track, hasNext)]

buildItemResponse(track, hasMore, isLast) ==
  [name |-> "GetItem.Response", hasItem |-> TRUE,
   item |-> buildItem(track, hasMore), isQueueFinished |-> isLast]

buildQueueFinishedResponse ==
  [name |-> "GetItem.Response", hasItem |-> FALSE,
   item |-> buildItem(NoTrack, FALSE), isQueueFinished |-> TRUE]

(***************************************************************************)
(* Lambda handlers (Protocol A)                                            *)
(***************************************************************************)
IsSelectable(type) == type \in {S_TRACK, S_ARTIST, S_PLAYLIST}

\* a loop that takes the first attribute whatever its type
FirstSelectable_Any(attributes) ==
  IF Len(attributes) = 0 THEN [isNull |-> TRUE, entityId |-> <<>>, entityType |-> S_TRACK]
  ELSE [isNull |-> FALSE, entityId |-> attributes[1].entityId,
        entityType |-> attributes[1].type]

\* the loop over selectionCriteria.attributes: the first TRACK, ARTIST or
\* PLAYLIST attribute, or entityId = null with entityType "TRACK"
RECURSIVE FirstSelectable(_)
FirstSelectable(attributes) ==
  IF Len(attributes) = 0 THEN [isNull |-> TRUE, entityId |-> <<>>, entityType |-> S_TRACK]
  ELSE IF IsSelectable(attributes[1].type)
       THEN [isNull |-> FALSE, entityId |-> attributes[1].entityId,
             entityType |-> attributes[1].type]
       ELSE FirstSelectable(Tail(attributes))

handleGetPlayableContent(d, attributes) ==
  LET select(sel) ==
        IF sel.isNull \/ ~StrTruthy(sel.entityId) THEN
          IF ~resolveEntity(d, <<>>, S_ALL).found THEN buildContentNotFoundResponse
          ELSE buildGetPlayableContentResponse(S_contentAllCurrent)
        ELSE IF ~resolveEntity(d, sel.entityId, sel.entityType).found
          THEN buildContentNotFoundResponse
          ELSE buildGetPlayableContentResponse(
                 currentFormat(sel.entityType, sel.entityId))
  IN select(FirstSelectable(attributes))

\* a first-item flag that is set for any non-empty sequence
hasNextOfCount_NonEmpty(totalCount) == totalCount > 0

\* hasNext = totalCount > 1
hasNextOfCount(totalCount) == totalCount > 1

\* the branch of handleInitiate for a list context (all, artist, playlist)
InitiateList(result) ==
  IF ~result.found \/ ~result.hasTracks \/ Len(result.tracks) = 0
  THEN buildContentNotFoundResponse
  ELSE buildInitiateResponse(result.tracks[1], hasNextOfCount(result.totalCount))

handleInitiate(d, contentId) ==
  LET ofTrack(result) ==
        IF ~result.found \/ ~result.track.some THEN buildContentNotFoundResponse
        ELSE buildInitiateResponse(result.track.v, hasNextOfCount(1))
      initiate(ref) ==
        IF ref.type = S_all THEN InitiateList(resolveEntity(d, <<>>, S_ALL))
        ELSE IF ref.type = S_track
          THEN ofTrack(resolveEntity(d, ref.entityId, S_TRACK))
        ELSE IF ref.type = S_artist
          THEN InitiateList(resolveEntity(d, ref.entityId, S_ARTIST))
        ELSE IF ref.type = S_playlist
          THEN InitiateList(resolveEntity(d, ref.entityId, S_PLAYLIST))
        ELSE buildContentNotFoundResponse
  IN initiate(parseContentId(contentId))

\* the answer both adjacent-item handlers build from the server's result:
\* `if (!result.hasNext || !result.track) return buildQueueFinishedResponse()`
\* and the item with its flags otherwise
AdjacentItemResponse(result) ==
  IF ~result.has \/ ~result.track.some THEN buildQueueFinishedResponse
  ELSE buildItemResponse(result.track.v, result.flag, ~result.flag)

\* currentItemId is payload.currentItemReference.value.id (maybe undefined)
handleGetNextItem(d, currentItemId) ==
  IF ~StrTruthy(currentItemId) THEN buildQueueFinishedResponse
  ELSE AdjacentItemResponse(getNextTrack(d, currentItemId, Undefined))

\* a get-previous-item that asks the engine for the next track
handleGetPreviousItem_CallsNext(d, currentItemId) ==
  LET item(result) ==
        IF ~result.has \/ ~result.track.some THEN buildQueueFinishedResponse
        ELSE buildItemResponse(result.track.v, result.flag, ~result.flag)
  IN IF ~StrTruthy(currentItemId) THEN buildQueueFinishedResponse
     ELSE item(getNextTrack(d, currentItemId, Undefined))

handleGetPreviousItem(d, currentItemId) ==
  IF ~StrTruthy(currentItemId) THEN buildQueueFinishedResponse
  ELSE AdjacentItemResponse(getPreviousTrack(d, currentItemId, Undefined))

\* a get-current-item that keeps a cursor of the session: NEXT is enabled
\* only on the first refresh
handleGetItem_SessionCursor(d, currentItemId) ==
  LET withNext(track, hasMore) == buildItemResponse(track, hasMore, ~hasMore)
      item(result) ==
        IF ~result.found \/ ~result.track.some THEN buildQueueFinishedResponse
        ELSE withNext(result.track.v,
                      getNextTrack(d, result.track.v.id, Undefined).has
                      /\ Len(chain.refreshes) = 0)
  IN IF ~StrTruthy(currentItemId) THEN buildQueueFinishedResponse
     ELSE item(resolveEntity(d, currentItemId, S_TRACK))

\* a get-current-item that ends the queue when the track has no next track
handleGetItem_NoNextTerminal(d, currentItemId) ==
  LET withNext(track, hasMore) ==
        IF ~hasMore THEN buildQueueFinishedResponse
        ELSE buildItemResponse(track, hasMore, ~hasMore)
      item(result) ==
        IF ~result.found \/ ~result.track.some THEN buildQueueFinishedResponse
        ELSE withNext(result.track.v,
                      getNextTrack(d, result.track.v.id, Undefined).has)
  IN IF ~StrTruthy(currentItemId) THEN buildQueueFinishedResponse
     ELSE item(resolveEntity(d, currentItemId, S_TRACK))

handleGetItem(d, currentItemId) ==
  LET withNext(track, hasMore) == buildItemResponse(track, hasMore, ~hasMore)
      item(result) ==
        IF ~result.found \/ ~result.track.some THEN buildQueueFinishedResponse
        ELSE withNext(result.track.v,
                      getNextTrack(d, result.track.v.id, Undefined).has)
  IN IF ~StrTruthy(currentItemId) THEN buildQueueFinishedResponse
     ELSE item(resolveEntity(d, currentItemId, S_TRACK))

(***************************************************************************)
(* Spoken texts of alexa-handler.ts, as code units                         *)
(***************************************************************************)
\* "音楽プレーヤーです。曲名やアーティスト名、プレイリスト名で再生できます。"
T_greeting ==
  <<38899, 27005, 12503, 12524, 12540, 12516, 12540, 12391, 12377, 12290,
    26354, 21517, 12420, 12450, 12540, 12486, 12451, 12473, 12488, 21517,
    12289, 12503, 12524, 12452, 12522, 12473, 12488, 21517, 12391, 20877,
    29983, 12391, 12365, 12414, 12377, 12290>>
\* "曲名、アーティスト名、またはプレイリスト名を言ってください。例えば、ビリーロムの曲をかけて、と言ってみてください。"
T_help ==
  <<26354, 21517, 12289, 12450, 12540, 12486, 12451, 12473, 12488, 21517,
    12289, 12414, 12383, 12399, 12503, 12524, 12452, 12522, 12473, 12488,
    21517, 12434, 35328, 12387, 12390, 12367, 12384, 12373, 12356, 12290,
    20363, 12360, 12400, 12289, 12499, 12522, 12540, 12525, 12512, 12398,
    26354, 12434, 12363, 12369, 12390, 12289, 12392, 35328, 12387, 12390,
    12415, 12390, 12367, 12384, 12373, 12356, 12290>>
\* "曲名やアーティスト名で再生できます。"
T_fallback ==
  <<26354, 21517, 12420, 12450, 12540, 12486, 12451, 12473, 12488, 21517,
    12391, 20877, 29983, 12391, 12365, 12414, 12377, 12290>>
\* "現在再生中の曲がありません。"
T_noCurrentTrack ==
  <<29694, 22312, 20877, 29983, 20013, 12398, 26354, 12364, 12354, 12426,
    12414, 12379, 12435, 12290>>
\* "次の曲はありません。"
T_noNext ==
  <<27425, 12398, 26354, 12399, 12354, 12426, 12414, 12379, 12435, 12290>>
\* "前の曲はありません。"
T_noPrevious ==
  <<21069, 12398, 26354, 12399, 12354, 12426, 12414, 12379, 12435, 12290>>
\* " が見つかりませんでした。"
T_songNotFound ==
  <<32, 12364, 35211, 12388, 12363, 12426, 12414, 12379, 12435, 12391,
    12375, 12383, 12290>>
\* " の曲が見つかりませんでした。"
T_artistNotFound ==
  <<32, 12398, 26354, 12364, 35211, 12388, 12363, 12426, 12414, 12379,
    12435, 12391, 12375, 12383, 12290>>
\* "プレイリスト名を言ってください。"
T_sayPlaylistName ==
  <<12503, 12524, 12452, 12522, 12473, 12488, 21517, 12434, 35328, 12387,
    12390, 12367, 12384, 12373, 12356, 12290>>
\* "「"
T_openQuote ==
  <<12300>>
\* "」というプレイリストが見つかりませんでした。"
T_playlistNotFound ==
  <<12301, 12392, 12356, 12358, 12503, 12524, 12452, 12522, 12473, 12488,
    12364, 35211, 12388, 12363, 12426, 12414, 12379, 12435, 12391, 12375,
    12383, 12290>>
\* "プレイリストに曲が含まれていません。"
T_playlistEmpty ==
  <<12503, 12524, 12452, 12522, 12473, 12488, 12395, 26354, 12364, 21547,
    12414, 12428, 12390, 12356, 12414, 12379, 12435, 12290>>
\* " を再生します。"
T_playing ==
  <<32, 12434, 20877, 29983, 12375, 12414, 12377, 12290>>
\* " の曲を再生します。"
T_playingArtist ==
  <<32, 12398, 26354, 12434, 20877, 29983, 12375, 12414, 12377, 12290>>
\* "プレイリスト "
T_playlistWord ==
  <<12503, 12524, 12452, 12522, 12473, 12488, 32>>
\* "再生できる曲がありません。"
T_nothingToPlay ==
  <<20877, 29983, 12391, 12365, 12427, 26354, 12364, 12354, 12426, 12414,
    12379, 12435, 12290>>

(***************************************************************************)
(* alexa-response.ts (Protocol B responses).  A text is a string; the      *)
(* speechText a caller leaves out is the empty string.                     *)
(***************************************************************************)
NoRaw == [some |-> FALSE, v |-> <<>>]
SomeRaw(raw) == [some |-> TRUE, v |-> raw]

\* buildPlayResponse; throws when encodeToken throws
buildPlayResponse(track, token, behavior, offsetMs, expectedPreviousToken, speechText) ==
  LET play(encodedToken) ==
        IF ~encodedToken.ok THEN Throws
        ELSE Ok([kind |-> "play", playBehavior |-> behavior,
                 trackId |-> track.id, token |-> encodedToken.v,
                 offsetInMilliseconds |-> offsetMs,
                 expectedPreviousToken |->
                   IF behavior = "ENQUEUE" /\ expectedPreviousToken.some
                      /\ StrTruthy(expectedPreviousToken.v)
                   THEN expectedPreviousToken ELSE NoRaw,
                 speech |-> speechText, shouldEndSession |-> TRUE])
  IN play(encodeToken(token))

buildStopResponse == [kind |-> "stop", shouldEndSession |-> TRUE]

buildSpeechResponse(text, shouldEndSession) ==
  [kind |-> "speech", text |-> text, shouldEndSession |-> shouldEndSession]

buildEmptyResponse == [kind |-> "empty"]

(***************************************************************************)
(* alexa-handler.ts (Protocol B)                                           *)
(***************************************************************************)
\* audioPlayer?.token ? decodeToken(audioPlayer.token) : null
decodeContextToken(ctxToken) ==
  IF ctxToken.some /\ StrTruthy(ctxToken.v) THEN decodeToken(ctxToken.v) ELSE JNull

NoOffset == [some |-> FALSE, v |-> 0]
SomeOffset(ms) == [some |-> TRUE, v |-> ms]

\* a resumption that always starts from the beginning
OffsetOrZero_AlwaysZero(offset) == 0

\* audioPlayer?.offsetInMilliseconds ?? 0
OffsetOrZero(offset) == IF offset.some THEN offset.v ELSE 0

\* a play-everything intent whose token names the single context
handlePlayAllIntent_Single(d) ==
  LET play(tracks) ==
        IF Len(tracks) = 0 THEN Ok(buildSpeechResponse(T_nothingToPlay, FALSE))
        ELSE buildPlayResponse(tracks[1], PlaybackToken(tracks[1].id, S_single),
                               "REPLACE_ALL", 0, NoRaw, tracks[1].title \o T_playing)
  IN play(getTracks(d))

handlePlayAllIntent(d) ==
  LET play(tracks) ==
        IF Len(tracks) = 0 THEN Ok(buildSpeechResponse(T_nothingToPlay, FALSE))
        ELSE buildPlayResponse(tracks[1], PlaybackToken(tracks[1].id, S_all),
                               "REPLACE_ALL", 0, NoRaw, tracks[1].title \o T_playing)
  IN play(getTracks(d))

\* a title search that falls back to everything when nothing matches
handlePlaySongIntent_FallsBack(d, songName) ==
  LET play(tracks) ==
        IF Len(tracks) = 0 THEN handlePlayAllIntent(d)
        ELSE buildPlayResponse(tracks[1], PlaybackToken(tracks[1].id, S_single),
                               "REPLACE_ALL", 0, NoRaw, tracks[1].title \o T_playing)
  IN IF ~StrTruthy(songName) THEN handlePlayAllIntent(d)
     ELSE play(searchTracksByTitle(d, songName))

handlePlaySongIntent(d, songName) ==
  LET play(tracks) ==
        IF Len(tracks) = 0
        THEN Ok(buildSpeechResponse(songName \o T_songNotFound, FALSE))
        ELSE buildPlayResponse(tracks[1], PlaybackToken(tracks[1].id, S_single),
                               "REPLACE_ALL", 0, NoRaw, tracks[1].title \o T_playing)
  IN IF ~StrTruthy(songName) THEN handlePlayAllIntent(d)
     ELSE play(searchTracksByTitle(d, songName))

\* an artist search that searches also for an absent artist name
handlePlayArtistIntent_NoFallback(d, artistName) ==
  LET play(tracks) ==
        IF Len(tracks) = 0
        THEN Ok(buildSpeechResponse(artistName \o T_artistNotFound, FALSE))
        ELSE buildPlayResponse(tracks[1],
                               PlaybackToken(tracks[1].id,
                                             S_artistPrefix \o tracks[1].artistId),
                               "REPLACE_ALL", 0, NoRaw,
                               tracks[1].artist \o T_playingArtist)
  IN play(searchTracksByArtist(d, artistName))

handlePlayArtistIntent(d, artistName) ==
  LET play(tracks) ==
        IF Len(tracks) = 0
        THEN Ok(buildSpeechResponse(artistName \o T_artistNotFound, FALSE))
        ELSE buildPlayResponse(tracks[1],
                               PlaybackToken(tracks[1].id,
                                             S_artistPrefix \o tracks[1].artistId),
                               "REPLACE_ALL", 0, NoRaw,
                               tracks[1].artist \o T_playingArtist)
  IN IF ~StrTruthy(artistName) THEN handlePlayAllIntent(d)
     ELSE play(searchTracksByArtist(d, artistName))

\* a playlist start that issues its token for the all context
handlePlayPlaylistIntent_AllContext(d, playlistName) ==
  LET play(pl, tracks) ==
        IF Len(tracks) = 0 THEN Ok(buildSpeechResponse(T_playlistEmpty, FALSE))
        ELSE buildPlayResponse(tracks[1], PlaybackToken(tracks[1].id, S_all),
                               "REPLACE_ALL", 0, NoRaw,
                               T_playlistWord \o pl.name \o T_playing)
      chosen(playlists) ==
        IF Len(playlists) = 0 \/ Len(playlists[1].trackIds) = 0
        THEN Ok(buildSpeechResponse(
                  T_openQuote \o playlistName \o T_playlistNotFound, FALSE))
        ELSE play(playlists[1], getPlaylistTracks(d, playlists[1].id))
  IN IF ~StrTruthy(playlistName)
       THEN Ok(buildSpeechResponse(T_sayPlaylistName, FALSE))
     ELSE chosen(searchPlaylistsByName(d, playlistName))

\* a playlist start that plays the newest track of the library
handlePlayPlaylistIntent_LibraryFirst(d, playlistName) ==
  LET play(pl, tracks) ==
        IF Len(tracks) = 0 THEN Ok(buildSpeechResponse(T_playlistEmpty, FALSE))
        ELSE buildPlayResponse(tracks[1],
                               PlaybackToken(tracks[1].id, S_playlistPrefix \o pl.id),
                               "REPLACE_ALL", 0, NoRaw,
                               T_playlistWord \o pl.name \o T_playing)
      chosen(playlists) ==
        IF Len(playlists) = 0 \/ Len(playlists[1].trackIds) = 0
        THEN Ok(buildSpeechResponse(
                  T_openQuote \o playlistName \o T_playlistNotFound, FALSE))
        ELSE play(playlists[1], d.tracks)
  IN IF ~StrTruthy(playlistName)
       THEN Ok(buildSpeechResponse(T_sayPlaylistName, FALSE))
     ELSE chosen(searchPlaylistsByName(d, playlistName))

handlePlayPlaylistIntent(d, playlistName) ==
  LET play(pl, tracks) ==
        IF Len(tracks) = 0 THEN Ok(buildSpeechResponse(T_playlistEmpty, FALSE))
        ELSE buildPlayResponse(tracks[1],
                               PlaybackToken(tracks[1].id, S_playlistPrefix \o pl.id),
                               "REPLACE_ALL", 0, NoRaw,
                               T_playlistWord \o pl.name \o T_playing)
      chosen(playlists) ==
        IF Len(playlists) = 0 \/ Len(playlists[1].trackIds) = 0
        THEN Ok(buildSpeechResponse(
                  T_openQuote \o playlistName \o T_playlistNotFound, FALSE))
        ELSE play(playlists[1], getPlaylistTracks(d, playlists[1].id))
  IN IF ~StrTruthy(playlistName)
       THEN Ok(buildSpeechResponse(T_sayPlaylistName, FALSE))
     ELSE chosen(searchPlaylistsByName(d, playlistName))

\* db.getTrack(token.trackId); a trackId that is no string names no row
TrackOfToken(d, token) ==
  LET trackOf(trackId) == IF trackId.k = "str" THEN getTrack(d, trackId.s) ELSE None
  IN trackOf(GetProp(token, S_trackId))

handleResumeIntent(d, context) ==
  LET fallback(tracks) ==
        IF Len(tracks) = 0 THEN Ok(buildSpeechResponse(T_nothingToPlay, FALSE))
        ELSE buildPlayResponse(tracks[1], PlaybackToken(tracks[1].id, S_all),
                               "REPLACE_ALL", 0, NoRaw, <<>>)
      resume(token, track) ==
        IF Truthy(token) /\ track.some
        THEN buildPlayResponse(track.v, token, "REPLACE_ALL",
                               OffsetOrZero(context.offsetInMilliseconds), NoRaw, <<>>)
        ELSE fallback(getTracks(d))
      decoded(token) == resume(token, TrackOfToken(d, token))
  IN decoded(decodeContextToken(context.token))

\* a track list that has no branch for the artist context
AdjacentTrackList_NoArtist(d, context) ==
  LET ofPlaylist(pl) ==
        IF ~pl.some THEN [some |-> FALSE, v |-> <<>>]
        ELSE [some |-> TRUE, v |-> pl.v.trackIds]
  IN IF StartsWith(context, S_playlistPrefix)
       THEN ofPlaylist(getPlaylist(d, Slice(context, Len(S_playlistPrefix))))
     ELSE [some |-> TRUE, v |-> getTrackIds(d)]

\* the track list findAdjacentTrack walks for a context string;
\* [some |-> FALSE] is the early `return null` of an unknown playlist
AdjacentTrackList(d, context) ==
  LET ofPlaylist(pl) ==
        IF ~pl.some THEN [some |-> FALSE, v |-> <<>>]
        ELSE [some |-> TRUE, v |-> pl.v.trackIds]
      ofArtist(tracks) ==
        [some |-> TRUE, v |-> [i \in 1..Len(tracks) |-> tracks[i].id]]
  IN IF StartsWith(context, S_playlistPrefix)
       THEN ofPlaylist(getPlaylist(d, Slice(context, Len(S_playlistPrefix))))
     ELSE IF StartsWith(context, S_artistPrefix)
       THEN ofArtist(getTracksByArtistId(d, Slice(context, Len(S_artistPrefix))))
     ELSE [some |-> TRUE, v |-> getTrackIds(d)]

\* an adjacency search without the early return for the single context
findAdjacentTrack_NoSingle(d, token, direction) ==
  LET context == GetProp(token, S_context)
      trackId == GetProp(token, S_trackId)
      target(trackList, targetIndex) ==
        IF targetIndex < 0 \/ targetIndex >= Len(trackList) THEN Ok(None)
        ELSE IF ~StrTruthy(trackList[targetIndex + 1]) THEN Ok(None)
        ELSE Ok(getTrack(d, trackList[targetIndex + 1]))
      from(trackList, currentIndex) ==
        IF currentIndex = -1 THEN Ok(None)
        ELSE target(trackList, IF direction = "next"
                               THEN currentIndex + 1 ELSE currentIndex - 1)
      within(list) ==
        IF ~list.some THEN Ok(None)
        ELSE from(list.v, IF trackId.k = "str"
                          THEN ArrayIndexOf(list.v, trackId.s) ELSE -1)
  IN IF context.k # "str" THEN Throws
     ELSE within(AdjacentTrackList(d, context.s))

\* an adjacency search that keeps its result in the memory of the server
\* instance: once the instance has served a request, it reports the end of
\* the sequence
findAdjacentTrack_Remembered(d, token, direction) ==
  LET context == GetProp(token, S_context)
      trackId == GetProp(token, S_trackId)
      target(trackList, targetIndex) ==
        IF targetIndex < 0 \/ targetIndex >= Len(trackList) THEN Ok(None)
        ELSE IF ~StrTruthy(trackList[targetIndex + 1]) THEN Ok(None)
        ELSE Ok(getTrack(d, trackList[targetIndex + 1]))
      from(trackList, currentIndex) ==
        IF currentIndex = -1 THEN Ok(None)
        ELSE target(trackList, IF direction = "next"
                               THEN currentIndex + 1 ELSE currentIndex - 1)
      within(list) ==
        IF ~list.some THEN Ok(None)
        ELSE from(list.v, IF trackId.k = "str"
                          THEN ArrayIndexOf(list.v, trackId.s) ELSE -1)
  IN IF context = JStr(S_single) THEN Ok(None)
     ELSE IF context.k # "str" THEN Throws
     ELSE IF chain.phase = "serving" /\ chain.initialized THEN Ok(None)
     ELSE within(AdjacentTrackList(d, context.s))

\* findAdjacentTrack up to `return db.getTrack(targetId)`: Ok(null), or
\* Throws for the TypeError of token.context.startsWith on a context that is
\* not a string, or the id it looks up
AdjacentTarget(d, token, direction) ==
  LET context == GetProp(token, S_context)
      trackId == GetProp(token, S_trackId)
      target(trackList, currentIndex, targetIndex) ==
        IF targetIndex < 0 \/ targetIndex >= Len(trackList) THEN Returns(Ok(None))
        ELSE IF ~StrTruthy(trackList[targetIndex + 1]) THEN Returns(Ok(None))
        ELSE LooksUp(trackList[targetIndex + 1], currentIndex, Len(trackList))
      from(trackList, currentIndex) ==
        IF currentIndex = -1 THEN Returns(Ok(None))
        ELSE target(trackList, currentIndex,
                    IF direction = "next"
                    THEN currentIndex + 1 ELSE currentIndex - 1)
      within(list) ==
        IF ~list.some THEN Returns(Ok(None))
        ELSE from(list.v, IF trackId.k = "str"
                          THEN ArrayIndexOf(list.v, trackId.s) ELSE -1)
  IN IF context = JStr(S_single) THEN Returns(Ok(None))
     ELSE IF context.k # "str" THEN Returns(Throws)
     ELSE within(AdjacentTrackList(d, context.s))

\* findAdjacentTrack: Ok(Track | null), or Throws
findAdjacentTrack(d, token, direction) ==
  LET lookup(target) ==
        IF ~target.lookup THEN target.result
        ELSE Ok(getTrack(d, target.targetId))
  IN lookup(AdjacentTarget(d, token, direction))

\* a new token that is issued for the all context
AdjacentToken_AllContext(adjacent, token) ==
  JObj(<<[key |-> S_trackId, val |-> JStr(adjacent.id)],
         [key |-> S_context, val |-> JStr(S_all)]>>)

\* { trackId: adjacent.id, context: token.context }
AdjacentToken(adjacent, token) ==
  JObj(<<[key |-> S_trackId, val |-> JStr(adjacent.id)],
         [key |-> S_context, val |-> GetProp(token, S_context)]>>)

\* a navigation without the `if (!adjacent)` branch: reading adjacent.id of
\* null is a TypeError
NavigateAdjacent_Unchecked(token, adjacent, direction) ==
  IF ~adjacent.ok \/ ~adjacent.v.some THEN Throws
  ELSE buildPlayResponse(adjacent.v.v,
                         JObj(<<[key |-> S_trackId, val |-> JStr(adjacent.v.v.id)],
                                [key |-> S_context, val |-> GetProp(token, S_context)]>>),
                         "REPLACE_ALL", 0, NoRaw, <<>>)

\* handleNavigateIntent from the awaited findAdjacentTrack on
NavigateAdjacent(token, adjacent, direction) ==
  IF ~adjacent.ok THEN Throws
  ELSE IF ~adjacent.v.some
    THEN Ok(buildSpeechResponse(
              IF direction = "next" THEN T_noNext ELSE T_noPrevious, FALSE))
    ELSE buildPlayResponse(adjacent.v.v, AdjacentToken(adjacent.v.v, token),
                           "REPLACE_ALL", 0, NoRaw, <<>>)

handleNavigateIntent(d, ctxToken, direction) ==
  LET navigate(token) ==
        IF ~Truthy(token) THEN Ok(buildSpeechResponse(T_noCurrentTrack, FALSE))
        ELSE NavigateAdjacent(token, findAdjacentTrack(d, token, direction),
                              direction)
  IN navigate(decodeContextToken(ctxToken))

\* the PlaybackNearlyFinished branch from the awaited findAdjacentTrack on;
\* expectedToken is request.token
EnqueueNext(token, nextTrack, expectedToken) ==
  IF ~nextTrack.ok THEN Throws
  ELSE IF ~nextTrack.v.some THEN Ok(buildEmptyResponse)
  ELSE buildPlayResponse(nextTrack.v.v, AdjacentToken(nextTrack.v.v, token),
                         "ENQUEUE", 0, expectedToken, <<>>)

handleAudioPlayerEvent(d, request) ==
  LET nearlyFinished(token) ==
        IF ~Truthy(token) THEN Ok(buildEmptyResponse)
        ELSE EnqueueNext(token, findAdjacentTrack(d, token, "next"),
                         request.token)
  IN IF request.type = "AudioPlayer.PlaybackNearlyFinished" THEN
       IF ~request.token.some \/ ~StrTruthy(request.token.v) THEN Ok(buildEmptyResponse)
       ELSE nearlyFinished(decodeToken(request.token.v))
     ELSE Ok(buildEmptyResponse)

\* the Next / Previous branches of handlePlaybackController from the
\* awaited findAdjacentTrack on
ControllerAdjacent(token, adjacent) ==
  IF ~adjacent.ok THEN Throws
  ELSE IF ~adjacent.v.some THEN Ok(buildEmptyResponse)
  ELSE buildPlayResponse(adjacent.v.v, AdjacentToken(adjacent.v.v, token),
                         "REPLACE_ALL", 0, NoRaw, <<>>)

\* the Next / Previous branches of handlePlaybackController
ControllerNavigate(d, token, direction) ==
  IF ~Truthy(token) THEN Ok(buildEmptyResponse)
  ELSE ControllerAdjacent(token, findAdjacentTrack(d, token, direction))

handlePlaybackController(d, context, requestType) ==
  LET resume(token, track) ==
        IF Truthy(token) /\ track.some
        THEN buildPlayResponse(track.v, token, "REPLACE_ALL",
                               OffsetOrZero(context.offsetInMilliseconds), NoRaw, <<>>)
        ELSE Ok(buildEmptyResponse)
      control(token) ==
        IF requestType = "PlaybackController.NextCommandIssued"
          THEN ControllerNavigate(d, token, "next")
        ELSE IF requestType = "PlaybackController.PreviousCommandIssued"
          THEN ControllerNavigate(d, token, "previous")
        ELSE IF requestType = "PlaybackController.PlayCommandIssued"
          THEN resume(token, TrackOfToken(d, token))
        ELSE IF requestType = "PlaybackController.PauseCommandIssued"
          THEN Ok(buildStopResponse)
        ELSE Ok(buildEmptyResponse)
  IN control(decodeContextToken(context.token))

\* a dispatch that has no case for AMAZON.CancelIntent
handleIntent_NoCancel(d, request, context) ==
  CASE request.intent = "PlaySongIntent" ->
         handlePlaySongIntent(d, request.slots.songName)
    [] request.intent = "PlayArtistIntent" ->
         handlePlayArtistIntent(d, request.slots.artistName)
    [] request.intent = "PlayPlaylistIntent" ->
         handlePlayPlaylistIntent(d, request.slots.playlistName)
    [] request.intent = "PlayAllIntent" -> handlePlayAllIntent(d)
    [] request.intent = "AMAZON.ResumeIntent" -> handleResumeIntent(d, context)
    [] request.intent \in {"AMAZON.PauseIntent", "AMAZON.StopIntent"} ->
         Ok(buildStopResponse)
    [] request.intent = "AMAZON.NextIntent" ->
         handleNavigateIntent(d, context.token, "next")
    [] request.intent = "AMAZON.PreviousIntent" ->
         handleNavigateIntent(d, context.token, "previous")
    [] request.intent = "AMAZON.HelpIntent" -> Ok(buildSpeechResponse(T_help, FALSE))
    [] OTHER -> Ok(buildSpeechResponse(T_fallback, FALSE))

handleIntent(d, request, context) ==
  CASE request.intent = "PlaySongIntent" ->
         handlePlaySongIntent(d, request.slots.songName)
    [] request.intent = "PlayArtistIntent" ->
         handlePlayArtistIntent(d, request.slots.artistName)
    [] request.intent = "PlayPlaylistIntent" ->
         handlePlayPlaylistIntent(d, request.slots.playlistName)
    [] request.intent = "PlayAllIntent" -> handlePlayAllIntent(d)
    [] request.intent = "AMAZON.ResumeIntent" -> handleResumeIntent(d, context)
    [] request.intent \in {"AMAZON.PauseIntent", "AMAZON.StopIntent",
                           "AMAZON.CancelIntent"} -> Ok(buildStopResponse)
    [] request.intent = "AMAZON.NextIntent" ->
         handleNavigateIntent(d, context.token, "next")
    [] request.intent = "AMAZON.PreviousIntent" ->
         handleNavigateIntent(d, context.token, "previous")
    [] request.intent = "AMAZON.HelpIntent" -> Ok(buildSpeechResponse(T_help, FALSE))
    [] OTHER -> Ok(buildSpeechResponse(T_fallback, FALSE))

\* the request types that satisfy requestType.startsWith("AudioPlayer.")
AudioPlayerTypes ==
  {"AudioPlayer.PlaybackNearlyFinished", "AudioPlayer.PlaybackFailed",
   "AudioPlayer.PlaybackStarted"}

\* the request types that satisfy requestType.startsWith("PlaybackController.")
PlaybackControllerTypes ==
  {"PlaybackController.NextCommandIssued", "PlaybackController.PreviousCommandIssued",
   "PlaybackController.PlayCommandIssued", "PlaybackController.PauseCommandIssued"}

\* a dispatch that hands the token of the player context to the AudioPlayer
\* event handler
handleAlexaRequest_ContextToken(d, body) ==
  LET request == body.request
      context == body.context
  IN IF request.type = "LaunchRequest" THEN Ok(buildSpeechResponse(T_greeting, FALSE))
     ELSE IF request.type = "SessionEndedRequest" THEN Ok(buildEmptyResponse)
     ELSE IF request.type \in AudioPlayerTypes
       THEN handleAudioPlayerEvent(d, [request EXCEPT !.token = context.token])
     ELSE IF request.type \in PlaybackControllerTypes
       THEN handlePlaybackController(d, context, request.type)
     ELSE IF request.type = "IntentRequest" /\ request.intent # ""
       THEN handleIntent(d, request, context)
     ELSE Ok(buildEmptyResponse)

\* body = [request |-> [type, intent, slots, token],
\*         context |-> [token, offsetInMilliseconds]]
handleAlexaRequest(d, body) ==
  LET request == body.request
      context == body.context
  IN IF request.type = "LaunchRequest" THEN Ok(buildSpeechResponse(T_greeting, FALSE))
     ELSE IF request.type = "SessionEndedRequest" THEN Ok(buildEmptyResponse)
     ELSE IF request.type \in AudioPlayerTypes
       THEN handleAudioPlayerEvent(d, request)
     ELSE IF request.type \in PlaybackControllerTypes
       THEN handlePlaybackController(d, context, request.type)
     ELSE IF request.type = "IntentRequest" /\ request.intent # ""
       THEN handleIntent(d, request, context)
     ELSE Ok(buildEmptyResponse)

\* handleAlexaRoute: HTTP 200 with the handler's result, or with the empty
\* response when the handler throws
handleAlexaRoute(d, body) ==
  LET respond(result) ==
        IF result.ok THEN [status |-> 200, threw |-> FALSE, body |-> result.v]
        ELSE [status |-> 200, threw |-> TRUE, body |-> buildEmptyResponse]
  IN respond(handleAlexaRequest(d, body))

\* whether handleAlexaRequest awaits a storage call for the body: the play
\* intents search or list the tracks (PlayPlaylistIntent after its prompt
\* for an absent name), resumption looks the track up or lists the tracks,
\* navigation lists the ids of the context of a decoded token (not for the
\* single context, and a context that is no string raises before)
ReachesStorage(body) ==
  LET request == body.request
      adjacency(token) ==
        /\ Truthy(token)
        /\ GetProp(token, S_context).k = "str"
        /\ GetProp(token, S_context) # JStr(S_single)
      ofContext(token) ==
        CASE request.type \in {"PlaybackController.NextCommandIssued",
                               "PlaybackController.PreviousCommandIssued"} ->
               adjacency(token)
          [] request.type = "PlaybackController.PlayCommandIssued" -> Truthy(token)
          [] request.type = "IntentRequest" ->
               CASE request.intent \in {"PlaySongIntent", "PlayArtistIntent",
                                        "PlayAllIntent", "AMAZON.ResumeIntent"} -> TRUE
                 [] request.intent = "PlayPlaylistIntent" ->
                      StrTruthy(request.slots.playlistName)
                 [] request.intent \in {"AMAZON.NextIntent", "AMAZON.PreviousIntent"} ->
                      adjacency(token)
                 [] OTHER -> FALSE
          [] OTHER -> FALSE
  IN IF request.type = "AudioPlayer.PlaybackNearlyFinished"
     THEN /\ request.token.some
          /\ StrTruthy(request.token.v)
          /\ adjacency(decodeToken(request.token.v))
     ELSE ofContext(decodeContextToken(body.context.token))

\* handleAlexaRoute while every storage call rejects: the rejection is
\* caught by no handler and reaches the catch of the route
handleAlexaRouteStorageDown(d, body) ==
  LET respond(result) ==
        IF result.ok THEN [status |-> 200, threw |-> FALSE, body |-> result.v]
        ELSE [status |-> 200, threw |-> TRUE, body |-> buildEmptyResponse]
  IN respond(IF ReachesStorage(body) THEN Throws ELSE handleAlexaRequest(d, body))

(***************************************************************************)
(* Token codec and ContentReference codec as a state machine: Init draws   *)
(* an input, the actions apply the codec functions to it.                  *)
(***************************************************************************)
\* strings of length 1..n over an alphabet
Strings(alphabet, n) == UNION {[1..m -> alphabet] : m \in 1..n}

\* characters of ids: a letter, the hyphen and dot of generated ids, the
\* colon of the separator, and the two characters JSON must escape
IdAlphabet == {97, 45, 58, 34, 92}
CodecIds == Strings(IdAlphabet, MaxIdLen)

CodecContexts ==
  {S_all, S_single}
  \cup {S_artistPrefix \o id : id \in CodecIds}
  \cup {S_playlistPrefix \o id : id \in CodecIds}

\* characters of externally supplied JSON texts
TextAlphabet == {123, 125, 34, 58, 97, 49, 91, 93}
\* JSON texts that parse but are not a {trackId, context} record
OddTexts ==
  {<<110, 117, 108, 108>>,
   <<123>> \o QuoteJSONString(S_trackId) \o <<58>> \o QuoteJSONString(<<97>>) \o <<125>>,
   <<123>> \o QuoteJSONString(S_context) \o <<58>> \o QuoteJSONString(S_all) \o <<125>>,
   <<123>> \o QuoteJSONString(S_trackId) \o <<58, 49, 44>>
           \o QuoteJSONString(S_context) \o <<58, 49, 125>>}
CodecTexts == Strings(TextAlphabet, MaxTextLen) \cup OddTexts \cup {<<>>}

\* characters of raw strings that are not produced by btoa
RawAlphabet == {65, 61, 33, 32}

CodecRaws ==
  {btoa(t).v : t \in CodecTexts} \cup Strings(RawAlphabet, MaxTextLen)

RefKinds == {S_track, S_artist, S_playlist}
RefAlphabet == {97, 45, 58}
\* entity ids for the two ContentReference formats, the empty id included
RefIds == Strings(RefAlphabet, MaxIdLen + 1) \cup {<<>>}

CodecInputs ==
  {[phase |-> "token", trackId |-> t, context |-> c] : t \in CodecIds, c \in CodecContexts}
  \cup {[phase |-> "raw", raw |-> r] : r \in CodecRaws}
  \cup {[phase |-> "ref", kind |-> k, id |-> i] : k \in RefKinds, i \in RefIds}
  \cup {[phase |-> "sentinel"]}

CodecIdle == [phase |-> "idle"]
Idle == [op |-> "idle"]
NoResp == [name |-> "none"]
NoChain == [phase |-> "none"]
EmptyDb == [tracks |-> <<>>, playlists |-> <<>>, artists |-> Artists]

InitCodec ==
  /\ codec \in CodecInputs
  /\ db = EmptyDb
  /\ req = Idle
  /\ resp = NoResp
  /\ chain = NoChain

\* encodeToken applied to the drawn token
EncodeToken ==
  /\ codec.phase = "token"
  /\ codec' = [phase |-> "encoded", trackId |-> codec.trackId, context |-> codec.context,
               raw |-> encodeToken(PlaybackToken(codec.trackId, codec.context))]
  /\ UNCHANGED <<db, req, resp, chain>>

\* decodeToken applied to the string encodeToken returned
DecodeEncoded ==
  /\ codec.phase = "encoded"
  /\ codec.raw.ok
  /\ codec' = [phase |-> "roundtrip", trackId |-> codec.trackId, context |-> codec.context,
               raw |-> codec.raw, decoded |-> decodeToken(codec.raw.v)]
  /\ UNCHANGED <<db, req, resp, chain>>

\* decodeToken applied to a string a client supplies
DecodeRaw ==
  /\ codec.phase = "raw"
  /\ codec' = [phase |-> "decoded", raw |-> codec.raw, decoded |-> decodeToken(codec.raw)]
  /\ UNCHANGED <<db, req, resp, chain>>

\* the contentId parsing of handleInitiate applied to both formats of one
\* (kind, id)
ParseBothFormats ==
  /\ codec.phase = "ref"
  /\ codec' = [phase |-> "parsed", kind |-> codec.kind, id |-> codec.id,
               legacy |-> parseContentId(legacyFormat(codec.kind, codec.id)),
               current |-> parseContentId(currentFormat(codec.kind, codec.id))]
  /\ UNCHANGED <<db, req, resp, chain>>

\* the same for the legacy sentinel "content-all" and "content::all::"
ParseSentinel ==
  /\ codec.phase = "sentinel"
  /\ codec' = [phase |-> "parsedSentinel",
               legacy |-> parseContentId(S_contentAllLegacy),
               current |-> parseContentId(S_contentAllCurrent)]
  /\ UNCHANGED <<db, req, resp, chain>>

NextCodec ==
  \/ EncodeToken
  \/ DecodeEncoded
  \/ DecodeRaw
  \/ ParseBothFormats
  \/ ParseSentinel

SpecCodec == InitCodec /\ [][NextCodec]_vars

(***************************************************************************)
(* Properties of the codecs (SpecCodec)                                    *)
(***************************************************************************)
\* C1: for every navigation token {trackId, context} with context all,
\* single, artist::<id> or playlist::<id>, encodeToken returns a string and
\* decodeToken of that string is a token equal to the original.
C1_TokenRoundTrip ==
  /\ codec.phase = "encoded" => codec.raw.ok
  /\ codec.phase = "roundtrip" =>
       codec.decoded = PlaybackToken(codec.trackId, codec.context)

\* a round trip of an artist-context token whose track id holds a backslash
C1_Witness ==
  /\ codec.phase = "roundtrip"
  /\ StartsWith(codec.context, S_artistPrefix)
  /\ \E i \in 1..Len(codec.trackId) : codec.trackId[i] = 92
  /\ GetProp(codec.decoded, S_trackId) = JStr(codec.trackId)

\* C3: for every kind in {track, artist, playlist} and every id without
\* "::", the legacy contentId content-<kind>-<id> and the current contentId
\* content::<kind>::<id> parse to the same (kind, id); the legacy sentinel
\* content-all parses to the same value as content::all::, kind all with an
\* empty id.
C3_LegacyAgrees ==
  /\ (codec.phase = "parsed" /\ ~Includes(codec.id, S_sep)) =>
       /\ codec.legacy = codec.current
       /\ codec.current = [type |-> codec.kind, entityId |-> codec.id]
  /\ codec.phase = "parsedSentinel" =>
       /\ codec.legacy = codec.current
       /\ codec.current = [type |-> S_all, entityId |-> <<>>]

\* both formats parsed for an id that holds a hyphen and no "::"
C3_Witness ==
  /\ codec.phase = "parsed"
  /\ Includes(codec.id, S_hyphen)
  /\ ~Includes(codec.id, S_sep)
  /\ codec.legacy.entityId = codec.id

\* C4: decodeToken never raises and returns null for every input string
\* that is not the encoding of a {trackId, context} record, so its result
\* is either null or a record with a string trackId and a string context.
C4_InvalidDecodesToNull ==
  codec.phase = "decoded" =>
    (codec.decoded = JNull \/ IsTokenRecord(codec.decoded))

(***************************************************************************)
(* Storage states and request inputs                                       *)
(***************************************************************************)
IsInjective(f) == \A i, j \in DOMAIN f : f[i] = f[j] => i = j

\* the orders (newest first) in which any subset of the tracks may be held
Libraries ==
  {lib \in UNION {[1..n -> 1..MaxTracks] : n \in 0..MaxTracks} : IsInjective(lib)}

\* the playlist_tracks rows of a playlist: distinct ids of rows of tracks
\* (primary key, foreign key)
PlaylistRows(lib) ==
  {pl \in UNION {[1..n -> 1..Len(lib)] : n \in 0..Min(MaxPlaylistLen, Len(lib))} :
     IsInjective(pl)}

\* a library in the order of its row numbers
IsAscending(lib) == \A i, j \in DOMAIN lib : i < j => lib[i] < lib[j]

\* the storage states: every library without a playlist, and every playlist
\* over the libraries held in the order of their row numbers (the playlist
\* takes every order of every subset of the rows, so every relative order
\* of playlist and library occurs)
Storages ==
  {[tracks |-> [i \in 1..Len(lib) |-> TrackRow(lib[i])], playlists |-> <<>>,
    artists |-> Artists]
     : lib \in Libraries}
  \cup UNION {
    {[tracks |-> [i \in 1..Len(lib) |-> TrackRow(lib[i])],
      playlists |-> <<[id |-> PlaylistId, name |-> PlaylistName,
                       trackIds |-> [i \in 1..Len(pl) |-> TrackId(lib[pl[i]])]]>>,
      artists |-> Artists]
       : pl \in PlaylistRows(lib)}
    : lib \in {l \in Libraries : IsAscending(l)}}

TrackIds == {TrackId(i) : i \in 1..MaxTracks}
CurrentIds == TrackIds \cup {UnknownTrackId, Undefined}
PlaylistArgs == {Undefined, PlaylistId, UnknownPlaylistId}
ArtistIds == {ArtistId(1), ArtistId(2), UnknownArtistId}

\* entity ids a Selection may name for each entity type
EntityIdsOf(type) ==
  CASE type = S_TRACK -> TrackIds \cup {UnknownTrackId}
    [] type = S_ARTIST -> ArtistIds
    [] type = S_PLAYLIST -> {PlaylistId, UnknownPlaylistId}
    [] OTHER -> {UnknownTrackId}

Attributes ==
  {[type |-> t, entityId |-> e] : t \in {S_TRACK, S_ARTIST, S_PLAYLIST, S_ALBUM},
                                  e \in TrackIds \cup ArtistIds \cup {PlaylistId, UnknownPlaylistId}}
OwnAttributes == {a \in Attributes : a.entityId \in EntityIdsOf(a.type)}

\* selectionCriteria.attributes: none, one attribute, or an attribute that
\* follows one of a type the handler skips
Selections ==
  {<<>>}
  \cup {<<a>> : a \in OwnAttributes}
  \cup {<<[type |-> S_ALBUM, entityId |-> UnknownTrackId], a>> :
          a \in {b \in OwnAttributes : b.type # S_ALBUM}}

\* ContentReferences an Initiate request may carry, each with the kind and
\* entity id it names: both formats of every reference, the sentinels, a
\* kind that is no context and a string with no kind
ContentRefs ==
  {[contentId |-> currentFormat(a.type, a.entityId),
    kind |-> ToLowerCase(a.type), id |-> a.entityId] : a \in OwnAttributes}
  \cup {[contentId |-> legacyFormat(ToLowerCase(a.type), a.entityId),
         kind |-> ToLowerCase(a.type), id |-> a.entityId] :
          a \in {b \in OwnAttributes : ~Includes(b.entityId, S_sep)}}
  \cup {[contentId |-> S_contentAllCurrent, kind |-> S_all, id |-> <<>>],
        [contentId |-> S_contentAllLegacy, kind |-> S_all, id |-> <<>>],
        [contentId |-> S_content, kind |-> <<>>, id |-> <<>>]}

\* the playback contexts a token may name
ContextRefs ==
  {[kind |-> "all", id |-> <<>>], [kind |-> "single", id |-> <<>>]}
  \cup {[kind |-> "artist", id |-> a] : a \in ArtistIds}
  \cup {[kind |-> "playlist", id |-> p] : p \in {PlaylistId, UnknownPlaylistId}}

\* the context string of a token: "all" | "single" | "artist::{artistId}" |
\* "playlist::{playlistId}"
ContextString(ctx) ==
  CASE ctx.kind = "all" -> S_all
    [] ctx.kind = "single" -> S_single
    [] ctx.kind = "artist" -> S_artistPrefix \o ctx.id
    [] OTHER -> S_playlistPrefix \o ctx.id

NoContext == [kind |-> "none", id |-> <<>>]

\* tokens a player may hold, each with the fields it was issued for: every
\* token the server can have issued for a track id and a context, strings
\* that do not decode, and strings that decode to something that is not a
\* token record
NavTokens ==
  {[raw |-> SomeRaw(encodeToken(PlaybackToken(t, ContextString(c))).v),
    issued |-> TRUE, trackId |-> t, ctx |-> c] :
     t \in TrackIds \cup {UnknownTrackId}, c \in ContextRefs}
BadTokens ==
  {[raw |-> r, issued |-> FALSE, trackId |-> <<>>, ctx |-> NoContext] :
     r \in {NoRaw, SomeRaw(<<33>>), SomeRaw(btoa(<<123, 125>>).v),
            SomeRaw(btoa(<<110, 117, 108, 108>>).v)}}
ClientTokens == NavTokens \cup BadTokens

\* the offsets a player context may report: none, the start, a position
Offsets == {NoOffset, SomeOffset(0), SomeOffset(1500)}

\* the tokens the player context of an AudioPlayer event may hold: none, or
\* the token of another track in another context
ContextTokens ==
  {NoRaw, SomeRaw(encodeToken(PlaybackToken(TrackId(1), S_all)).v)}

\* characters of spoken slot values: a letter, a capital, the space and
\* the LIKE wildcard "_"
QueryAlphabet == {97, 66, 32, 95}
\* slot values: absent, empty, or a spoken text
Queries == Strings(QueryAlphabet, MaxQueryLen) \cup {Undefined}

\* slots["songName"]?.value and the like; Undefined for an absent slot
NoSlots == [songName |-> Undefined, artistName |-> Undefined, playlistName |-> Undefined]

PlayIntents ==
  {"PlaySongIntent", "PlayArtistIntent", "PlayPlaylistIntent", "PlayAllIntent"}

\* the slots of a play intent: the query in the slot the intent reads
SlotsOf(intent, query) ==
  [songName |-> IF intent = "PlaySongIntent" THEN query ELSE Undefined,
   artistName |-> IF intent = "PlayArtistIntent" THEN query ELSE Undefined,
   playlistName |-> IF intent = "PlayPlaylistIntent" THEN query ELSE Undefined]

AlexaBody(type, intent, slots, requestToken, contextToken, offset) ==
  [request |-> [type |-> type, intent |-> intent, slots |-> slots,
                token |-> requestToken],
   context |-> [token |-> contextToken, offsetInMilliseconds |-> offset]]

(***************************************************************************)
(* One request at a time against any storage state (Spec)                  *)
(***************************************************************************)
Init ==
  /\ db \in Storages
  /\ req = Idle
  /\ resp = NoResp
  /\ codec = CodecIdle
  /\ chain = NoChain

\* POST /api/next
GetNextTrack ==
  /\ req = Idle
  /\ \E cur \in CurrentIds, pl \in PlaylistArgs :
       /\ req' = [op |-> "handleGetNextTrack", currentTrackId |-> cur, playlistId |-> pl]
       /\ resp' = handleGetNextTrack(db, cur, pl)
  /\ UNCHANGED <<db, codec, chain>>

\* POST /api/previous
GetPreviousTrack ==
  /\ req = Idle
  /\ \E cur \in CurrentIds, pl \in PlaylistArgs :
       /\ req' = [op |-> "handleGetPreviousTrack", currentTrackId |-> cur, playlistId |-> pl]
       /\ resp' = handleGetPreviousTrack(db, cur, pl)
  /\ UNCHANGED <<db, codec, chain>>

\* Alexa.Media.Search GetPlayableContent
GetPlayableContent ==
  /\ req = Idle
  /\ \E attributes \in Selections :
       /\ req' = [op |-> "handleGetPlayableContent", attributes |-> attributes]
       /\ resp' = handleGetPlayableContent(db, attributes)
  /\ UNCHANGED <<db, codec, chain>>

\* Alexa.Media.Playback Initiate
Initiate ==
  /\ req = Idle
  /\ \E ref \in ContentRefs :
       /\ req' = [op |-> "handleInitiate", contentId |-> ref.contentId,
                  kind |-> ref.kind, id |-> ref.id]
       /\ resp' = handleInitiate(db, ref.contentId)
  /\ UNCHANGED <<db, codec, chain>>

\* Alexa.Audio.PlayQueue GetNextItem
GetNextItem ==
  /\ req = Idle
  /\ \E cur \in CurrentIds :
       /\ req' = [op |-> "handleGetNextItem", currentItemId |-> cur]
       /\ resp' = handleGetNextItem(db, cur)
  /\ UNCHANGED <<db, codec, chain>>

\* Alexa.Audio.PlayQueue GetPreviousItem
GetPreviousItem ==
  /\ req = Idle
  /\ \E cur \in CurrentIds :
       /\ req' = [op |-> "handleGetPreviousItem", currentItemId |-> cur]
       /\ resp' = handleGetPreviousItem(db, cur)
  /\ UNCHANGED <<db, codec, chain>>

\* Alexa.Audio.PlayQueue GetItem
GetItem ==
  /\ req = Idle
  /\ \E cur \in CurrentIds :
       /\ req' = [op |-> "handleGetItem", currentItemId |-> cur]
       /\ resp' = handleGetItem(db, cur)
  /\ UNCHANGED <<db, codec, chain>>

\* POST /api/alexa with AMAZON.NextIntent or AMAZON.PreviousIntent
NavigateIntent ==
  /\ req = Idle
  /\ \E intent \in {"AMAZON.NextIntent", "AMAZON.PreviousIntent"}, tok \in ClientTokens :
       /\ req' = [op |-> "IntentRequest", intent |-> intent, token |-> tok]
       /\ resp' = handleAlexaRoute(db, AlexaBody("IntentRequest", intent, NoSlots,
                                                 NoRaw, tok.raw, NoOffset))
  /\ UNCHANGED <<db, codec, chain>>

\* POST /api/alexa with a PlaybackController request (physical controls)
PlaybackController ==
  /\ req = Idle
  /\ \E type \in PlaybackControllerTypes, tok \in ClientTokens :
     \E offset \in IF type = "PlaybackController.PlayCommandIssued"
                   THEN Offsets ELSE {NoOffset} :
       /\ req' = [op |-> type, intent |-> "", token |-> tok, offset |-> offset]
       /\ resp' = handleAlexaRoute(db, AlexaBody(type, "", NoSlots, NoRaw, tok.raw,
                                                 offset))
  /\ UNCHANGED <<db, codec, chain>>

\* POST /api/alexa with an AudioPlayer event; the event carries its own
\* token, the context another one
AudioPlayerEvent ==
  /\ req = Idle
  /\ \E type \in AudioPlayerTypes, tok \in ClientTokens, ctxTok \in ContextTokens :
       /\ req' = [op |-> type, intent |-> "", token |-> tok, contextToken |-> ctxTok]
       /\ resp' = handleAlexaRoute(db, AlexaBody(type, "", NoSlots, tok.raw, ctxTok,
                                                 NoOffset))
  /\ UNCHANGED <<db, codec, chain>>

\* POST /api/alexa with a request that names no track
OtherAlexaRequest ==
  /\ req = Idle
  /\ \E r \in {<<"LaunchRequest", "">>, <<"SessionEndedRequest", "">>,
               <<"IntentRequest", "AMAZON.PauseIntent">>,
               <<"IntentRequest", "AMAZON.StopIntent">>,
               <<"IntentRequest", "AMAZON.CancelIntent">>,
               <<"IntentRequest", "AMAZON.HelpIntent">>,
               <<"IntentRequest", "UnknownIntent">>,
               <<"System.ExceptionEncountered", "">>} :
       /\ req' = [op |-> r[1], intent |-> r[2]]
       /\ resp' = handleAlexaRoute(db, AlexaBody(r[1], r[2], NoSlots, NoRaw, NoRaw,
                                                 NoOffset))
  /\ UNCHANGED <<db, codec, chain>>

\* the response is sent; the server keeps nothing of the request
Complete ==
  /\ req # Idle
  /\ req' = Idle
  /\ resp' = NoResp
  /\ UNCHANGED <<db, codec, chain>>

Next ==
  \/ GetNextTrack
  \/ GetPreviousTrack
  \/ GetPlayableContent
  \/ Initiate
  \/ GetNextItem
  \/ GetPreviousItem
  \/ GetItem
  \/ NavigateIntent
  \/ PlaybackController
  \/ AudioPlayerEvent
  \/ OtherAlexaRequest
  \/ Complete

Spec == Init /\ [][Next]_vars

(***************************************************************************)
(* One play or resume request at a time against any storage state          *)
(* (SpecDirective)                                                         *)
(***************************************************************************)
\* POST /api/alexa with PlaySongIntent, PlayArtistIntent, PlayPlaylistIntent
\* (the slot of the intent holds a query or is absent) or PlayAllIntent
PlayIntent ==
  /\ req = Idle
  /\ \E intent \in PlayIntents :
     \E query \in IF intent = "PlayAllIntent" THEN {Undefined} ELSE Queries :
       /\ req' = [op |-> "IntentRequest", intent |-> intent, query |-> query]
       /\ resp' = handleAlexaRoute(db, AlexaBody("IntentRequest", intent,
                                                 SlotsOf(intent, query), NoRaw, NoRaw,
                                                 NoOffset))
  /\ UNCHANGED <<db, codec, chain>>

\* POST /api/alexa with AMAZON.ResumeIntent
ResumeIntent ==
  /\ req = Idle
  /\ \E tok \in ClientTokens, offset \in Offsets :
       /\ req' = [op |-> "IntentRequest", intent |-> "AMAZON.ResumeIntent",
                  token |-> tok, offset |-> offset]
       /\ resp' = handleAlexaRoute(db, AlexaBody("IntentRequest", "AMAZON.ResumeIntent",
                                                 NoSlots, NoRaw, tok.raw, offset))
  /\ UNCHANGED <<db, codec, chain>>

NextDirective ==
  \/ PlayIntent
  \/ ResumeIntent
  \/ Complete

SpecDirective == Init /\ [][NextDirective]_vars

(***************************************************************************)
(* Reference notions of the properties: the resolved sequence of a         *)
(* context and the adjacent element of a sequence                          *)
(***************************************************************************)
IdsOf(rows) == [i \in 1..Len(rows) |-> rows[i].id]

\* the ordered id sequence of a context: all tracks newest first, the
\* tracks of one artist in the same order, the stored order of a playlist;
\* empty for an unknown artist or playlist
ResolvedSequence(d, ctx) ==
  CASE ctx.kind = "all" -> IdsOf(d.tracks)
    [] ctx.kind = "artist" ->
         IdsOf(SelectSeq(d.tracks, LAMBDA t : t.artistId = ctx.id))
    [] ctx.kind = "playlist" ->
         IF \E i \in 1..Len(d.playlists) : d.playlists[i].id = ctx.id
         THEN d.playlists[CHOOSE i \in 1..Len(d.playlists) :
                            d.playlists[i].id = ctx.id].trackIds
         ELSE <<>>
    [] ctx.kind = "track" ->
         IF \E i \in 1..Len(d.tracks) : d.tracks[i].id = ctx.id
         THEN <<ctx.id>> ELSE <<>>
    [] OTHER -> <<>>

\* 1-based position of x in s, 0 when absent
PosIn(s, x) ==
  IF \E i \in 1..Len(s) : s[i] = x THEN CHOOSE i \in 1..Len(s) : s[i] = x ELSE 0

\* the element after / before x in s; <<>> stands for no-result
NextOf(s, x) ==
  IF PosIn(s, x) = 0 \/ PosIn(s, x) = Len(s) THEN <<>> ELSE s[PosIn(s, x) + 1]
PrevOf(s, x) ==
  IF PosIn(s, x) <= 1 THEN <<>> ELSE s[PosIn(s, x) - 1]

\* the context a /api/next or /api/previous request names
NavArgContext(playlistId) ==
  IF playlistId = Undefined THEN [kind |-> "all", id |-> <<>>]
  ELSE [kind |-> "playlist", id |-> playlistId]

\* the context a ContentReference (kind, id) names
RefContext(kind, id) ==
  CASE kind = S_all -> [kind |-> "all", id |-> <<>>]
    [] kind = S_track -> [kind |-> "track", id |-> id]
    [] kind = S_artist -> [kind |-> "artist", id |-> id]
    [] kind = S_playlist -> [kind |-> "playlist", id |-> id]
    [] OTHER -> NoContext

NavIntents == {"AMAZON.NextIntent", "AMAZON.PreviousIntent"}
NavCommands ==
  {"PlaybackController.NextCommandIssued", "PlaybackController.PreviousCommandIssued"}
IsNextRequest ==
  \/ req.op = "IntentRequest" /\ req.intent = "AMAZON.NextIntent"
  \/ req.op \in {"PlaybackController.NextCommandIssued",
                 "AudioPlayer.PlaybackNearlyFinished"}
\* a Protocol B request that asks for the adjacent track of its token
IsNavRequest ==
  \/ req.op = "IntentRequest" /\ req.intent \in NavIntents
  \/ req.op \in NavCommands
  \/ req.op = "AudioPlayer.PlaybackNearlyFinished"

\* the answer of a Protocol B navigation path that found no adjacent track
IsNoResultAnswer ==
  IF req.op = "IntentRequest"
  THEN resp.body = buildSpeechResponse(
                     IF req.intent = "AMAZON.NextIntent" THEN T_noNext ELSE T_noPrevious,
                     FALSE)
  ELSE resp.body = buildEmptyResponse

(***************************************************************************)
(* Properties of single requests (Spec)                                    *)
(***************************************************************************)
\* C5: for a context with resolved sequence s and a current track at index
\* i, next returns s[i+1] when it exists and no-result otherwise, previous
\* returns s[i-1] when i >= 1 and no-result otherwise; a track absent from
\* s, or an s empty because the artist or playlist is unknown, gives
\* no-result and never an error.  For handleGetNextTrack,
\* handleGetPreviousTrack and findAdjacentTrack (through its callers).
C5_Adjacency ==
  /\ req.op = "handleGetNextTrack" =>
       LET e == NextOf(ResolvedSequence(db, NavArgContext(req.playlistId)),
                       req.currentTrackId)
       IN IF e = <<>> THEN ~resp.has /\ ~resp.track.some /\ resp.status \in {200, 404}
          ELSE resp.has /\ resp.track.v.id = e /\ resp.status = 200
  /\ req.op = "handleGetPreviousTrack" =>
       LET e == PrevOf(ResolvedSequence(db, NavArgContext(req.playlistId)),
                       req.currentTrackId)
       IN IF e = <<>> THEN ~resp.has /\ ~resp.track.some /\ resp.status \in {200, 404}
          ELSE resp.has /\ resp.track.v.id = e /\ resp.status = 200
  /\ (IsNavRequest /\ req.token.issued /\ req.token.ctx.kind # "single") =>
       LET s == ResolvedSequence(db, req.token.ctx)
           e == IF IsNextRequest THEN NextOf(s, req.token.trackId)
                ELSE PrevOf(s, req.token.trackId)
       IN /\ ~resp.threw
          /\ IF e = <<>> THEN IsNoResultAnswer
             ELSE resp.body.kind = "play" /\ resp.body.trackId = e

\* a Next intent in an artist context answered with the artist's next
\* track, which is not the next track of the whole library
C5_Witness ==
  /\ req.op = "IntentRequest"
  /\ req.intent = "AMAZON.NextIntent"
  /\ req.token.ctx.kind = "artist"
  /\ resp.body.kind = "play"
  /\ resp.body.trackId # NextOf(IdsOf(db.tracks), req.token.trackId)

\* C6: for a current track at index i of a sequence of length N, a
\* successful handleGetNextTrack reports hasFurtherNext = (i+2 < N) and a
\* successful handleGetPreviousTrack reports hasNext = (i-1 < N-1).
C6_FlagArithmetic ==
  /\ (req.op = "handleGetNextTrack" /\ resp.has) =>
       LET s == ResolvedSequence(db, NavArgContext(req.playlistId))
           i == PosIn(s, req.currentTrackId) - 1
       IN resp.flag = (i + 2 < Len(s))
  /\ (req.op = "handleGetPreviousTrack" /\ resp.has) =>
       LET s == ResolvedSequence(db, NavArgContext(req.playlistId))
           i == PosIn(s, req.currentTrackId) - 1
       IN resp.flag = (i - 1 < Len(s) - 1)

\* a successful next onto the last track of a playlist: no further next
C6_Witness ==
  /\ req.op = "handleGetNextTrack"
  /\ req.playlistId = PlaylistId
  /\ resp.has
  /\ ~resp.flag

\* C7: for every token whose context is single, next and previous yield
\* no-result whatever the library holds: the voice intents answer with the
\* spoken no-next / no-previous message, the physical controls and the
\* near-end-of-track event with an empty acknowledgement; no Play
\* directive is emitted.
C7_SingleClosure ==
  (IsNavRequest /\ req.token.issued /\ req.token.ctx.kind = "single") =>
    /\ ~resp.threw
    /\ resp.body.kind # "play"
    /\ IsNoResultAnswer

\* a Next intent with a single-context token for the first of several
\* tracks, answered with the spoken no-next message
C7_Witness ==
  /\ req.op = "IntentRequest"
  /\ req.intent = "AMAZON.NextIntent"
  /\ req.token.ctx.kind = "single"
  /\ Len(db.tracks) >= 2
  /\ req.token.trackId = db.tracks[1].id
  /\ resp.body = buildSpeechResponse(T_noNext, FALSE)

\* C10: handleInitiate returns as firstItem the first element of the
\* resolved sequence of the context the ContentReference names, with NEXT
\* enabled exactly when the sequence has more than one element, and
\* content-not-found when the sequence is empty, the entity is unknown or
\* the kind is none of all, track, artist, playlist.
C10_InitiateFirst ==
  req.op = "handleInitiate" =>
    LET s == ResolvedSequence(db, RefContext(req.kind, req.id))
    IN IF Len(s) = 0 THEN resp = buildContentNotFoundResponse
       ELSE /\ resp.name = "Initiate.Response"
            /\ resp.firstItem.id = s[1]
            /\ resp.firstItem.nextEnabled = (Len(s) > 1)

\* Initiation of a one-track playlist whose track is not the newest of the
\* library: that track is the first item and NEXT is disabled
C10_Witness ==
  /\ req.op = "handleInitiate"
  /\ req.kind = S_playlist
  /\ resp.name = "Initiate.Response"
  /\ Len(db.tracks) >= 2
  /\ resp.firstItem.id # db.tracks[1].id
  /\ ~resp.firstItem.nextEnabled

(***************************************************************************)
(* A Protocol A client session (SpecQueue): Selection, then Initiation     *)
(* with the contentId Selection returned, then get-next-item /             *)
(* get-previous-item / get-current-item with the id of the item received   *)
(* last.  chain is the client's record of the session; the server keeps    *)
(* none.                                                                   *)
(***************************************************************************)
\* requests of one session after Initiation
MaxMoves == MaxTracks + 1

NoEntity == [type |-> <<>>, entityId |-> <<>>]
SelectableEntities == {a \in OwnAttributes : IsSelectable(a.type)}

InitQueue ==
  /\ db \in Storages
  /\ req = Idle
  /\ resp = NoResp
  /\ codec = CodecIdle
  /\ chain = [phase |-> "start"]

\* Selection of an entity, of no entity, or of an entity named after an
\* attribute of another type
QSelect ==
  /\ chain.phase = "start"
  /\ \E entity \in SelectableEntities \cup {NoEntity}, skipped \in BOOLEAN :
       /\ req' = [op |-> "handleGetPlayableContent",
                  attributes |->
                    (IF skipped THEN <<[type |-> S_ALBUM, entityId |-> UnknownTrackId]>>
                     ELSE <<>>)
                    \o (IF entity = NoEntity THEN <<>> ELSE <<entity>>)]
       /\ resp' = handleGetPlayableContent(db, req'.attributes)
       /\ chain' = [phase |-> IF resp'.name = "GetPlayableContent.Response"
                              THEN "selected" ELSE "notfound",
                    entity |-> entity,
                    contentId |-> IF resp'.name = "GetPlayableContent.Response"
                                  THEN resp'.contentId ELSE <<>>,
                    ref |-> [type |-> <<>>, entityId |-> <<>>],
                    items |-> <<>>, flags |-> <<>>, moves |-> <<>>,
                    refreshes |-> <<>>]
  /\ UNCHANGED <<db, codec>>

\* Initiation with the ContentReference of the Selection
QInitiate ==
  /\ chain.phase = "selected"
  /\ req' = [op |-> "handleInitiate", contentId |-> chain.contentId]
  /\ resp' = handleInitiate(db, chain.contentId)
  /\ chain' = [chain EXCEPT
       !.phase = IF resp'.name = "Initiate.Response" THEN "playing" ELSE "refused",
       !.ref = parseContentId(chain.contentId),
       !.items = IF resp'.name = "Initiate.Response"
                 THEN <<resp'.firstItem.id>> ELSE <<>>,
       !.flags = IF resp'.name = "Initiate.Response"
                 THEN <<resp'.firstItem.nextEnabled>> ELSE <<>>]
  /\ UNCHANGED <<db, codec>>

\* the session after a queue-lifecycle response r to a move
AfterMove(r, move) ==
  [chain EXCEPT
     !.phase = IF r.hasItem THEN "playing" ELSE "finished",
     !.items = IF r.hasItem THEN Append(chain.items, r.item.id) ELSE chain.items,
     !.flags = IF r.hasItem THEN Append(chain.flags, r.item.nextEnabled) ELSE chain.flags,
     !.moves = Append(chain.moves, move)]

\* get-next-item for the item received last
QNextItem ==
  /\ chain.phase = "playing"
  /\ Len(chain.moves) < MaxMoves
  /\ req' = [op |-> "handleGetNextItem", currentItemId |-> chain.items[Len(chain.items)]]
  /\ resp' = handleGetNextItem(db, req'.currentItemId)
  /\ chain' = AfterMove(resp', "next")
  /\ UNCHANGED <<db, codec>>

\* get-previous-item for the item received last
QPreviousItem ==
  /\ chain.phase = "playing"
  /\ Len(chain.moves) < MaxMoves
  /\ req' = [op |-> "handleGetPreviousItem",
             currentItemId |-> chain.items[Len(chain.items)]]
  /\ resp' = handleGetPreviousItem(db, req'.currentItemId)
  /\ chain' = AfterMove(resp', "previous")
  /\ UNCHANGED <<db, codec>>

\* get-current-item for the item received last (the refresh of an expiring
\* stream URL); chain.refreshes records what each refresh returned
QGetItem ==
  /\ chain.phase = "playing"
  /\ Len(chain.moves) < MaxMoves
  /\ req' = [op |-> "handleGetItem", currentItemId |-> chain.items[Len(chain.items)]]
  /\ resp' = handleGetItem(db, req'.currentItemId)
  /\ chain' = [chain EXCEPT
       !.phase = IF resp'.hasItem THEN "playing" ELSE "finished",
       !.moves = Append(chain.moves, "current"),
       !.refreshes = Append(chain.refreshes,
                            [id |-> req'.currentItemId, hasItem |-> resp'.hasItem,
                             track |-> resp'.item.id,
                             hasNext |-> resp'.item.nextEnabled])]
  /\ UNCHANGED <<db, codec>>

NextQueue ==
  \/ QSelect
  \/ QInitiate
  \/ QNextItem
  \/ QPreviousItem
  \/ QGetItem

SpecQueue == InitQueue /\ [][NextQueue]_vars

(***************************************************************************)
(* Properties of a Protocol A session (SpecQueue)                          *)
(***************************************************************************)
Initiated == chain.phase \in {"playing", "finished", "refused"}
OnlyNextMoves == \A k \in 1..Len(chain.moves) : chain.moves[k] = "next"
Elements(s) == {s[i] : i \in 1..Len(s)}

\* C2: for every Selection input (no entity, or an entity of kind TRACK,
\* ARTIST or PLAYLIST with id e), the contentId a successful
\* handleGetPlayableContent returns is parsed by handleInitiate back to the
\* same kind and the same id e (no entity: kind all, empty id), also when e
\* holds hyphens or the "::" separator.
C2_SelectionParsesBack ==
  Initiated =>
    chain.ref = IF chain.entity = NoEntity
                THEN [type |-> S_all, entityId |-> <<>>]
                ELSE [type |-> ToLowerCase(chain.entity.type),
                      entityId |-> chain.entity.entityId]

\* Initiation after the Selection of an existing entity whose id holds
\* "::", parsed back to that id
C2_Witness ==
  /\ chain.phase = "playing"
  /\ chain.entity # NoEntity
  /\ Includes(chain.entity.entityId, S_sep)
  /\ chain.ref.entityId = chain.entity.entityId

\* C8: after Initiation of a ContentReference for a context C (one artist,
\* one playlist or a single track), every track a later get-next-item or
\* get-previous-item returns belongs to C's resolved sequence, and
\* get-next-item on the last track of C returns queue-finished; so for an
\* artist with exactly one track Initiation returns it with hasNext=false
\* and get-next-item for it returns queue-finished.
C8_NavigationStaysInContext ==
  (chain.phase \in {"playing", "finished"} /\ chain.entity # NoEntity) =>
    LET s == ResolvedSequence(db, RefContext(ToLowerCase(chain.entity.type),
                                             chain.entity.entityId))
    IN /\ Elements(chain.items) \subseteq Elements(s)
       /\ (req.op = "handleGetNextItem" /\ req.currentItemId = s[Len(s)]) =>
            ~resp.hasItem /\ resp.isQueueFinished

\* C9: for an All context of N >= 1 tracks, Selection with no entity and
\* Initiation return the newest track with NEXT enabled exactly when N > 1;
\* each get-next-item on the track at position i returns the track at i+1
\* with NEXT enabled exactly when i+2 < N; get-next-item on the last track
\* returns queue-finished.  The chain visits every track once, newest
\* first, and ends after N items.
C9_AllChain ==
  (chain.phase # "start" /\ chain.entity = NoEntity /\ OnlyNextMoves) =>
    LET all == IdsOf(db.tracks)
        N == Len(all)
    IN /\ chain.phase \in {"notfound", "refused"} => N = 0
       /\ chain.phase = "selected" => N >= 1
       /\ chain.phase \in {"playing", "finished"} =>
            /\ Len(chain.items) >= 1
            /\ Len(chain.items) <= N
            /\ chain.items = SubSeq(all, 1, Len(chain.items))
            /\ \A k \in 1..Len(chain.items) : chain.flags[k] = (k < N)
       /\ chain.phase = "finished" => chain.items = all

\* a session over the whole library of MaxTracks tracks that has ended
C9_Witness ==
  /\ chain.phase = "finished"
  /\ chain.entity = NoEntity
  /\ OnlyNextMoves
  /\ Len(chain.items) = MaxTracks
  /\ Len(chain.moves) = MaxTracks

(***************************************************************************)
(* Properties of the Protocol A handlers (Spec)                            *)
(***************************************************************************)
\* the entity a Selection names: its first attribute of kind TRACK, ARTIST
\* or PLAYLIST, NoEntity when it has none
RequestedEntity(attributes) ==
  LET at == {i \in 1..Len(attributes) :
               attributes[i].type \in {S_TRACK, S_ARTIST, S_PLAYLIST}}
  IN IF at = {} THEN NoEntity
     ELSE attributes[CHOOSE i \in at : \A j \in at : i <= j]

\* the entity is held by storage: a track row, an artist with a track row,
\* a playlist row
EntityExists(d, entity) ==
  CASE entity.type = S_TRACK ->
         \E i \in 1..Len(d.tracks) : d.tracks[i].id = entity.entityId
    [] entity.type = S_ARTIST ->
         \E i \in 1..Len(d.tracks) : d.tracks[i].artistId = entity.entityId
    [] entity.type = S_PLAYLIST ->
         \E i \in 1..Len(d.playlists) : d.playlists[i].id = entity.entityId
    [] OTHER -> FALSE

\* the kind a ContentReference names for an entity type
KindOf(type) ==
  CASE type = S_TRACK -> S_track
    [] type = S_ARTIST -> S_artist
    [] OTHER -> S_playlist

\* C11: handleGetPlayableContent returns the ContentReference
\* content::<kind>::<id> of exactly the requested kind and entity id when
\* the entity exists in storage, the all reference content::all:: when no
\* entity is given and the library is not empty, and content-not-found
\* when the entity (or, with no entity, every track) is absent; the
\* response holds a contentId or an error type and never a track.
C11_SelectionValidates ==
  req.op = "handleGetPlayableContent" =>
    LET entity == RequestedEntity(req.attributes)
    IN /\ DOMAIN resp \in {{"name", "contentId"}, {"name", "type"}}
       /\ IF entity = NoEntity
          THEN resp = IF Len(db.tracks) > 0
                      THEN [name |-> "GetPlayableContent.Response",
                            contentId |-> S_content \o S_sep \o S_all \o S_sep]
                      ELSE [name |-> "ErrorResponse", type |-> "CONTENT_NOT_FOUND"]
          ELSE resp = IF EntityExists(db, entity)
                      THEN [name |-> "GetPlayableContent.Response",
                            contentId |-> S_content \o S_sep \o KindOf(entity.type)
                                          \o S_sep \o entity.entityId]
                      ELSE [name |-> "ErrorResponse", type |-> "CONTENT_NOT_FOUND"]

\* the Selection of a playlist that holds no track, named after an
\* attribute the handler skips: the reference of the playlist is returned
C11_Witness ==
  /\ req.op = "handleGetPlayableContent"
  /\ Len(req.attributes) = 2
  /\ req.attributes[2].type = S_PLAYLIST
  /\ Len(db.playlists) = 1
  /\ db.playlists[1].trackIds = <<>>
  /\ Len(db.tracks) > 0
  /\ resp.name = "GetPlayableContent.Response"
  /\ resp.contentId = S_content \o S_sep \o S_playlist \o S_sep \o PlaylistId

\* the terminal response: no item, the queue is finished
QueueFinished ==
  /\ resp.name = "GetItem.Response"
  /\ ~resp.hasItem
  /\ resp.isQueueFinished

\* C12: handleGetItem returns the terminal queue-finished response with no
\* item only when the current track id is missing or names no track of
\* storage; whenever the id names a track, the response carries the item
\* of that same id, also when the track has no next track.
C12_CurrentItemNotTerminal ==
  req.op = "handleGetItem" =>
    IF req.currentItemId = Undefined
       \/ ~\E i \in 1..Len(db.tracks) : db.tracks[i].id = req.currentItemId
    THEN QueueFinished
    ELSE /\ resp.name = "GetItem.Response"
         /\ resp.hasItem
         /\ resp.item.id = req.currentItemId

\* get-current-item for the oldest of several tracks, which has no next
\* track: the item of that track is returned
C12_Witness ==
  /\ req.op = "handleGetItem"
  /\ Len(db.tracks) >= 2
  /\ req.currentItemId = db.tracks[Len(db.tracks)].id
  /\ resp.hasItem
  /\ resp.item.id = req.currentItemId
  /\ ~resp.item.nextEnabled

\* C14: handleGetNextItem and handleGetPreviousItem return the
\* queue-finished response with no item exactly when the current item id
\* is missing or the engine has no adjacent track for it (the id is
\* unknown, or it is the last, for previous the first, of the tracks the
\* engine walks); in every other case the response carries the item of
\* that adjacent track.
C14_AdjacentItemOrFinished ==
  /\ req.op = "handleGetNextItem" =>
       LET e == NextOf(IdsOf(db.tracks), req.currentItemId)
       IN IF req.currentItemId = Undefined \/ e = <<>> THEN QueueFinished
          ELSE resp.name = "GetItem.Response" /\ resp.hasItem /\ resp.item.id = e
  /\ req.op = "handleGetPreviousItem" =>
       LET e == PrevOf(IdsOf(db.tracks), req.currentItemId)
       IN IF req.currentItemId = Undefined \/ e = <<>> THEN QueueFinished
          ELSE resp.name = "GetItem.Response" /\ resp.hasItem /\ resp.item.id = e

\* get-previous-item for the second of three tracks returns the item of
\* the first
C14_Witness ==
  /\ req.op = "handleGetPreviousItem"
  /\ Len(db.tracks) = 3
  /\ req.currentItemId = db.tracks[2].id
  /\ resp.hasItem
  /\ resp.item.id = db.tracks[1].id

IsPlayRequest == req.op = "IntentRequest" /\ req.intent \in PlayIntents

\* the slot of the request holds a text
HasQuery == req.query # Undefined

\* the playlists the search of a play-by-playlist intent finds
MatchedPlaylists == searchPlaylistsByName(db, req.query)

\* the candidate tracks the search of a play intent finds, in the order of
\* storage: the tracks matching the title, the tracks of the matching
\* artists, the tracks of the first matching playlist, or every track
Candidates ==
  CASE req.intent = "PlaySongIntent" -> searchTracksByTitle(db, req.query)
    [] req.intent = "PlayArtistIntent" -> searchTracksByArtist(db, req.query)
    [] req.intent = "PlayPlaylistIntent" ->
         IF Len(MatchedPlaylists) = 0 THEN <<>>
         ELSE getPlaylistTracks(db, MatchedPlaylists[1].id)
    [] OTHER -> getTracks(db)

\* the context of the token a play intent issues for a chosen track
IntentContext(track) ==
  CASE req.intent = "PlaySongIntent" -> S_single
    [] req.intent = "PlayArtistIntent" -> S_artist \o S_sep \o track.artistId
    [] req.intent = "PlayPlaylistIntent" -> S_playlist \o S_sep \o MatchedPlaylists[1].id
    [] OTHER -> S_all

\* the name the confirmation utterance of a play intent speaks
SpokenName(track) ==
  CASE req.intent = "PlayArtistIntent" -> track.artist
    [] req.intent = "PlayPlaylistIntent" -> MatchedPlaylists[1].name
    [] OTHER -> track.title

\* the response is one Play directive for the track with the behaviour,
\* the offset and a token of the track id and the context string
IsPlayOf(track, behavior, offset, context) ==
  /\ ~resp.threw
  /\ resp.body.kind = "play"
  /\ resp.body.playBehavior = behavior
  /\ resp.body.offsetInMilliseconds = offset
  /\ resp.body.trackId = track.id
  /\ decodeToken(resp.body.token) = PlaybackToken(track.id, context)

\* C15: when a play-by-title, play-by-artist or play-by-playlist intent
\* with a slot value, or a play-everything intent, finds at least one
\* candidate track, the response is one Play directive for the first
\* candidate with behaviour REPLACE_ALL, offset 0, a token {track id,
\* context} (single for title, artist::<artistId of the track> for artist,
\* playlist::<id of the matched playlist> for playlist, all for
\* everything) and an utterance that names the match.
C15_PlayFirstCandidate ==
  (IsPlayRequest /\ (HasQuery \/ req.intent = "PlayAllIntent")
   /\ Len(Candidates) > 0) =>
    /\ IsPlayOf(Candidates[1], "REPLACE_ALL", 0, IntentContext(Candidates[1]))
    /\ resp.body.expectedPreviousToken = NoRaw
    /\ Len(resp.body.speech) > 0
    /\ Includes(resp.body.speech, SpokenName(Candidates[1]))

\* a play-by-playlist intent answered with the first track of the matched
\* playlist, which is not the newest track of the library
C15_Witness ==
  /\ IsPlayRequest
  /\ req.intent = "PlayPlaylistIntent"
  /\ HasQuery
  /\ Len(db.tracks) >= 2
  /\ resp.body.kind = "play"
  /\ resp.body.trackId # db.tracks[1].id
  /\ GetProp(decodeToken(resp.body.token), S_context)
       = JStr(S_playlist \o S_sep \o PlaylistId)

\* C16: a PlaySongIntent whose title matches no track is answered with the
\* spoken text "<title> が見つかりませんでした。" (<title> not found) that
\* names the title as it was spoken, with no directive and the session
\* left open.
C16_UnmatchedTitle ==
  (IsPlayRequest /\ req.intent = "PlaySongIntent" /\ HasQuery
   /\ Len(searchTracksByTitle(db, req.query)) = 0) =>
    /\ ~resp.threw
    /\ resp.body = [kind |-> "speech", text |-> req.query \o T_songNotFound,
                    shouldEndSession |-> FALSE]

\* a title that matches nothing in a library that is not empty
C16_Witness ==
  /\ IsPlayRequest
  /\ req.intent = "PlaySongIntent"
  /\ Len(db.tracks) > 0
  /\ resp.body.kind = "speech"
  /\ resp.body.text = req.query \o T_songNotFound

\* the answer of PlayAllIntent: a Play directive for the first track of
\* All with context all, or the spoken text of an empty library
IsPlayAllAnswer ==
  IF Len(db.tracks) = 0
  THEN ~resp.threw /\ resp.body = buildSpeechResponse(T_nothingToPlay, FALSE)
  ELSE /\ IsPlayOf(db.tracks[1], "REPLACE_ALL", 0, S_all)
       /\ resp.body.speech = db.tracks[1].title \o T_playing

\* the search of the intent finds no match: no track for a title or an
\* artist, no playlist or a first playlist without tracks
FindsNoMatch ==
  IF req.intent = "PlayPlaylistIntent"
  THEN Len(MatchedPlaylists) = 0 \/ Len(MatchedPlaylists[1].trackIds) = 0
  ELSE Len(Candidates) = 0

IsSlotIntent ==
  IsPlayRequest /\ req.intent \in {"PlaySongIntent", "PlayArtistIntent", "PlayPlaylistIntent"}

\* the response is a spoken text without a directive; the session stays open
IsSpokenOnly ==
  /\ ~resp.threw
  /\ resp.body.kind = "speech"
  /\ ~resp.body.shouldEndSession

\* C17 as stated: a play-by-title, play-by-artist or play-by-playlist
\* intent with an empty slot, or whose search finds no match, is answered
\* exactly as PlayAllIntent is.
C17_FallsBackToEverything ==
  (IsSlotIntent /\ (~HasQuery \/ FindsNoMatch)) => IsPlayAllAnswer

\* C17 amended: a play-by-title or play-by-artist intent with an empty
\* slot is answered exactly as PlayAllIntent is; a play-by-playlist intent
\* with an empty slot, and every one of the three intents whose search
\* finds no match, is answered with a spoken text, no directive, and the
\* session left open.
C17_EmptySlotFallsBack ==
  /\ (IsSlotIntent /\ ~HasQuery /\ req.intent # "PlayPlaylistIntent") => IsPlayAllAnswer
  /\ (IsSlotIntent /\ ~HasQuery /\ req.intent = "PlayPlaylistIntent") =>
       IsSpokenOnly /\ resp.body.text = T_sayPlaylistName
  /\ (IsSlotIntent /\ HasQuery /\ FindsNoMatch) =>
       IsSpokenOnly /\ Includes(resp.body.text, req.query)

\* a play-by-artist intent without an artist name, answered with the
\* newest track of a library of several tracks in the all context
C17_Witness ==
  /\ IsPlayRequest
  /\ req.intent = "PlayArtistIntent"
  /\ ~HasQuery
  /\ Len(db.tracks) >= 2
  /\ resp.body.kind = "play"
  /\ resp.body.trackId = db.tracks[1].id
  /\ GetProp(decodeToken(resp.body.token), S_context) = JStr(S_all)

IsResumeRequest == req.op = "IntentRequest" /\ req.intent = "AMAZON.ResumeIntent"

\* the token of the request decodes to null or does not decode
DecodesToNothing(token) ==
  ~token.raw.some \/ token.raw.v = <<>> \/ decodeToken(token.raw.v) = JNull

AdjacentOfToken ==
  IF IsNextRequest
  THEN NextOf(ResolvedSequence(db, req.token.ctx), req.token.trackId)
  ELSE PrevOf(ResolvedSequence(db, req.token.ctx), req.token.trackId)

\* C19: for a Next / Previous voice intent and a Next / Previous physical
\* control with a token {trackId, context}: when the context's sequence
\* has an adjacent track, the response is a Play directive with
\* REPLACE_ALL, offset 0 and a new token of the adjacent track id and the
\* same context; when it has none, the voice intent is answered with the
\* spoken no-next / no-previous text (session left open) and the physical
\* control with the empty acknowledgement.
C19_NavigateDirective ==
  (((req.op = "IntentRequest" /\ req.intent \in NavIntents) \/ req.op \in NavCommands)
   /\ req.token.issued) =>
    IF AdjacentOfToken = <<>>
    THEN ~resp.threw /\ IsNoResultAnswer
    ELSE /\ IsPlayOf([id |-> AdjacentOfToken], "REPLACE_ALL", 0,
                     ContextString(req.token.ctx))
         /\ resp.body.expectedPreviousToken = NoRaw

\* a Previous physical control in a playlist context whose previous track
\* is not the previous track of the library
C19_Witness ==
  /\ req.op = "PlaybackController.PreviousCommandIssued"
  /\ req.token.issued
  /\ req.token.ctx.kind = "playlist"
  /\ resp.body.kind = "play"
  /\ resp.body.trackId # PrevOf(IdsOf(db.tracks), req.token.trackId)
  /\ GetProp(decodeToken(resp.body.token), S_context)
       = JStr(S_playlist \o S_sep \o PlaylistId)

\* C20: a near-end-of-track event is answered from the token of the event
\* alone, whatever token the player context holds: when that token is a
\* token {trackId, context} with a next track, the response is a Play
\* directive with ENQUEUE, offset 0, a new token of the next track id and
\* the same context, and expectedPreviousToken equal to the incoming
\* token string; when the token is missing, does not decode or has no next
\* track, the response is the empty acknowledgement.
C20_NearlyFinishedEnqueues ==
  req.op = "AudioPlayer.PlaybackNearlyFinished" =>
    IF req.token.issued /\ AdjacentOfToken # <<>>
    THEN /\ IsPlayOf([id |-> AdjacentOfToken], "ENQUEUE", 0,
                     ContextString(req.token.ctx))
         /\ resp.body.expectedPreviousToken = req.token.raw
    ELSE resp.body = buildEmptyResponse

\* a near-end-of-track event for a track in an artist context while the
\* player context holds a token of the all context: the artist's next
\* track is enqueued
C20_Witness ==
  /\ req.op = "AudioPlayer.PlaybackNearlyFinished"
  /\ req.contextToken # NoRaw
  /\ req.token.issued
  /\ req.token.ctx.kind = "artist"
  /\ resp.body.kind = "play"
  /\ resp.body.playBehavior = "ENQUEUE"
  /\ resp.body.expectedPreviousToken = req.token.raw
  /\ resp.body.trackId # NextOf(IdsOf(db.tracks), req.token.trackId)

(***************************************************************************)
(* Properties of the requests that name no track (Spec)                    *)
(***************************************************************************)
\* the empty acknowledgement { version: "1.0", response: {} }: no speech,
\* no directive
IsEmptyAcknowledgement ==
  resp.status = 200 /\ resp.body.kind = "empty"

\* a spoken answer with the given text that keeps the session open
IsSpokenWithSessionOpen(text) ==
  /\ resp.status = 200
  /\ resp.body.kind = "speech"
  /\ resp.body.text = text
  /\ ~resp.body.shouldEndSession

\* C21: every Protocol B request that is not a play, resume or navigation
\* request gets its fixed response: Launch the spoken greeting with the
\* session open; session-end an empty acknowledgement; the Pause, Stop and
\* Cancel intents a Stop directive that ends the session; a playback-failed
\* event an empty acknowledgement; an unrecognised intent the generic spoken
\* fallback with the session open; an unrecognised event or request type an
\* empty acknowledgement.  None of them raises.
C21_FixedResponses ==
  /\ req.op = "LaunchRequest" => ~resp.threw /\ IsSpokenWithSessionOpen(T_greeting)
  /\ req.op = "SessionEndedRequest" => ~resp.threw /\ IsEmptyAcknowledgement
  /\ (req.op = "IntentRequest"
      /\ req.intent \in {"AMAZON.PauseIntent", "AMAZON.StopIntent",
                         "AMAZON.CancelIntent"}) =>
       /\ ~resp.threw
       /\ resp.status = 200
       /\ resp.body.kind = "stop"
       /\ resp.body.shouldEndSession
  /\ req.op = "AudioPlayer.PlaybackFailed" => ~resp.threw /\ IsEmptyAcknowledgement
  /\ (req.op = "IntentRequest" /\ req.intent = "UnknownIntent") =>
       ~resp.threw /\ IsSpokenWithSessionOpen(T_fallback)
  /\ req.op \in {"AudioPlayer.PlaybackStarted", "System.ExceptionEncountered"} =>
       ~resp.threw /\ IsEmptyAcknowledgement

\* the Cancel intent answered with the Stop directive
C21_Witness ==
  /\ req.op = "IntentRequest"
  /\ req.intent = "AMAZON.CancelIntent"
  /\ resp.body = buildStopResponse

(***************************************************************************)
(* index.ts (the Lambda entry point) and fetchPartyKit of                  *)
(* partykit-client.ts.  An event is                                        *)
(* [requestType, intent, namespace, name, attributes, hasContentId,        *)
(*  contentId, currentItemId]; requestType is event.request?.type ("" when *)
(* absent), namespace and name are those of event.header ("" when absent). *)
(***************************************************************************)
\* { version: "1.0", response: { outputSpeech, shouldEndSession } }
StandardSpeech(text, shouldEndSession) ==
  [name |-> "StandardResponse", speech |-> text, shouldEndSession |-> shouldEndSession]

\* { version: "1.0", response: {} }
StandardEmpty == [name |-> "StandardResponse", speech |-> "", shouldEndSession |-> FALSE]

\* the ErrorResponse of index.ts: payload.type INTERNAL_ERROR
InternalErrorResponse(message) ==
  [name |-> "ErrorResponse", type |-> "INTERNAL_ERROR", message |-> message]

\* the number of fetchPartyKit calls the handler of a Music Skill API event
\* makes when each of them returns a response
RemoteCalls(d, event) ==
  LET ofItem(result) == IF ~result.found \/ ~result.track.some THEN 1 ELSE 2
  IN CASE event.namespace = "Alexa.Media.Search" /\ event.name = "GetPlayableContent" -> 1
       [] event.namespace = "Alexa.Media.Playback" /\ event.name = "Initiate" ->
            IF event.hasContentId
               /\ parseContentId(event.contentId).type
                    \in {S_all, S_track, S_artist, S_playlist}
            THEN 1 ELSE 0
       [] event.namespace = "Alexa.Audio.PlayQueue"
          /\ event.name \in {"GetNextItem", "GetPreviousItem"} ->
            IF StrTruthy(event.currentItemId) THEN 1 ELSE 0
       [] event.namespace = "Alexa.Audio.PlayQueue" /\ event.name = "GetItem" ->
            IF ~StrTruthy(event.currentItemId) THEN 0
            ELSE ofItem(resolveEntity(d, event.currentItemId, S_TRACK))
       [] OTHER -> 0

\* the try block of handler: Ok(response), or Throws when the handler
\* raises: a fetchPartyKit call of it threw (exhausted; no handler catches
\* it), or handleInitiate read contentId.includes of an absent contentId
handlerTry(d, event, exhausted) ==
  IF event.namespace = "Alexa.Media.Search" /\ event.name = "GetPlayableContent"
    THEN IF exhausted THEN Throws
         ELSE Ok(handleGetPlayableContent(d, event.attributes))
  ELSE IF event.namespace = "Alexa.Media.Playback" /\ event.name = "Initiate"
    THEN IF ~event.hasContentId \/ exhausted THEN Throws
         ELSE Ok(handleInitiate(d, event.contentId))
  ELSE IF event.namespace = "Alexa.Audio.PlayQueue" /\ event.name = "GetNextItem"
    THEN IF exhausted THEN Throws ELSE Ok(handleGetNextItem(d, event.currentItemId))
  ELSE IF event.namespace = "Alexa.Audio.PlayQueue" /\ event.name = "GetPreviousItem"
    THEN IF exhausted THEN Throws ELSE Ok(handleGetPreviousItem(d, event.currentItemId))
  ELSE IF event.namespace = "Alexa.Audio.PlayQueue" /\ event.name = "GetItem"
    THEN IF exhausted THEN Throws ELSE Ok(handleGetItem(d, event.currentItemId))
  ELSE Ok(InternalErrorResponse("unsupported"))

\* the standard Skill API branch of handler (event.request.type is set);
\* it calls no handler and no remote
handleStandardRequest(event) ==
  IF event.requestType = "LaunchRequest" THEN StandardSpeech("greeting", FALSE)
  ELSE IF event.requestType = "SessionEndedRequest" THEN StandardEmpty
  ELSE IF event.requestType = "IntentRequest" THEN
    IF event.intent \in {"AMAZON.StopIntent", "AMAZON.CancelIntent"}
      THEN StandardSpeech("stop", TRUE)
    ELSE IF event.intent = "AMAZON.HelpIntent" THEN StandardSpeech("help", FALSE)
    ELSE StandardSpeech("fallback", FALSE)
  ELSE StandardEmpty

\* an entry point whose try block has no catch: the failure escapes
handler_NoCatch(d, event, exhausted) ==
  LET caught(result) == IF result.ok THEN result.v ELSE [name |-> "UnhandledRejection"]
  IN IF event.requestType # "" THEN handleStandardRequest(event)
     ELSE IF event.namespace = "" \/ event.name = "" THEN StandardEmpty
     ELSE caught(handlerTry(d, event, exhausted))

\* handler(event): the response the Lambda returns
handler(d, event, exhausted) ==
  LET caught(result) ==
        IF result.ok THEN result.v ELSE InternalErrorResponse("internal")
  IN IF event.requestType # "" THEN handleStandardRequest(event)
     ELSE IF event.namespace = "" \/ event.name = "" THEN StandardEmpty
     ELSE caught(handlerTry(d, event, exhausted))

\* const MAX_RETRIES = 3
MAX_RETRIES == 3

\* a backoff that waits the same time before every retry
RetryDelay_Constant(attempt) == 200

\* 200 * Math.pow(2, attempt), in milliseconds
RetryDelay(attempt) == 200 * 2 ^ attempt

\* what an attempt of fetch(url) can give: the response of the server (its
\* status is 200, 400 or 404: res.ok || res.status < 500), a response with
\* status 503, or a rejection (network error)
FetchOutcomes == {"served", "http503", "networkError"}

\* res.ok || res.status < 500
IsReturned(outcome) == outcome = "served"

(***************************************************************************)
(* Requests under transport and storage failures (SpecFailure): a          *)
(* Protocol A event runs through handler; each remote call of its handler  *)
(* is a run of the loop of fetchPartyKit, one step per attempt and per     *)
(* wait.  chain is the state of that loop: the number of the call, the     *)
(* attempt, the outcomes and waits of the call so far, the last error.     *)
(* A Protocol B request runs through handleAlexaRoute with the storage up  *)
(* or rejecting every call.                                                *)
(***************************************************************************)
Event(requestType, intent, namespace, name) ==
  [requestType |-> requestType, intent |-> intent, namespace |-> namespace,
   name |-> name, attributes |-> <<>>, hasContentId |-> FALSE,
   contentId |-> <<>>, currentItemId |-> Undefined]

\* the events of the Music Skill API with their payloads, an Initiate
\* without contentId, events of the standard Skill API, an event without
\* header and events no branch of handler recognises
Events ==
  {[Event("", "", "Alexa.Media.Search", "GetPlayableContent")
      EXCEPT !.attributes = a] : a \in Selections}
  \cup {[Event("", "", "Alexa.Media.Playback", "Initiate")
           EXCEPT !.hasContentId = TRUE, !.contentId = ref.contentId] :
          ref \in ContentRefs}
  \cup {[Event("", "", "Alexa.Audio.PlayQueue", name) EXCEPT !.currentItemId = cur] :
          name \in {"GetNextItem", "GetPreviousItem", "GetItem"}, cur \in CurrentIds}
  \cup {Event("", "", "Alexa.Media.Playback", "Initiate"),
        Event("", "", "Alexa.Audio.PlayQueue", "SetLoop"),
        Event("", "", "Alexa.Media.Search", "Initiate"),
        Event("", "", "", ""),
        Event("LaunchRequest", "", "", ""),
        Event("SessionEndedRequest", "", "", ""),
        Event("IntentRequest", "AMAZON.StopIntent", "", ""),
        Event("IntentRequest", "AMAZON.CancelIntent", "", ""),
        Event("IntentRequest", "AMAZON.HelpIntent", "", ""),
        Event("IntentRequest", "PlayAllIntent", "", ""),
        Event("CanFulfillIntentRequest", "", "", "")}

FetchIdle ==
  [phase |-> "idle", call |-> 0, attempt |-> 0, log |-> <<>>, waits |-> <<>>,
   lastError |-> "none", thrown |-> "none", exhausted |-> FALSE]

InitFailure ==
  /\ db \in Storages
  /\ req = Idle
  /\ resp = NoResp
  /\ codec = CodecIdle
  /\ chain = FetchIdle

\* handler(event) up to the first fetchPartyKit call of its handler, or to
\* its return when there is none
Receive ==
  /\ chain.phase = "idle"
  /\ \E event \in Events :
       /\ req' = [op |-> "handler", event |-> event]
       /\ IF RemoteCalls(db, event) = 0
          THEN /\ resp' = handler(db, event, FALSE)
               /\ chain' = [FetchIdle EXCEPT !.phase = "done"]
          ELSE /\ resp' = NoResp
               /\ chain' = [FetchIdle EXCEPT !.phase = "attempt", !.call = 1]
  /\ UNCHANGED <<db, codec>>

\* the loop of fetchPartyKit after an attempt with the given outcome, in a
\* handler that makes the given number of calls
AfterFetch(outcome, calls) ==
  IF IsReturned(outcome) THEN
    IF chain.call < calls
    THEN [FetchIdle EXCEPT !.phase = "attempt", !.call = chain.call + 1]
    ELSE [chain EXCEPT !.phase = "done", !.log = Append(@, outcome)]
  ELSE IF chain.attempt < MAX_RETRIES - 1
    THEN [chain EXCEPT !.phase = "wait", !.log = Append(@, outcome),
                       !.lastError = outcome]
    ELSE [chain EXCEPT !.phase = "done", !.log = Append(@, outcome),
                       !.lastError = outcome, !.thrown = outcome,
                       !.exhausted = TRUE]

\* one pass of the loop body of fetchPartyKit: await fetch, then return the
\* response, or note the error and wait for the retry, or throw lastError
\* after the last attempt.  A returned response lets the handler go on to
\* its next call or to its return; a throw makes the handler raise.
Fetch ==
  /\ chain.phase = "attempt"
  /\ \E outcome \in FetchOutcomes :
       /\ chain' = AfterFetch(outcome, RemoteCalls(db, req.event))
       /\ resp' = IF chain'.phase # "done" THEN resp
                  ELSE handler(db, req.event, chain'.exhausted)
  /\ UNCHANGED <<db, codec, req>>

\* await new Promise((r) => setTimeout(r, 200 * Math.pow(2, attempt))),
\* then attempt++
Timer ==
  /\ chain.phase = "wait"
  /\ chain' = [chain EXCEPT !.phase = "attempt", !.attempt = @ + 1,
                            !.waits = Append(@, RetryDelay(chain.attempt))]
  /\ UNCHANGED <<db, codec, req, resp>>

\* the requests of Protocol B sent while the storage may fail: one that
\* reads no storage, one that lists the tracks, and navigation by voice
\* and by the physical control with every token
FailureBodies ==
  {[op |-> "LaunchRequest", intent |-> "", token |-> NoRaw],
   [op |-> "IntentRequest", intent |-> "PlayAllIntent", token |-> NoRaw]}
  \cup {[op |-> "IntentRequest", intent |-> "AMAZON.NextIntent", token |-> tok.raw] :
          tok \in ClientTokens}
  \cup {[op |-> "PlaybackController.NextCommandIssued", intent |-> "",
         token |-> tok.raw] : tok \in ClientTokens}

\* POST /api/alexa while the storage answers, or while it rejects every call
AlexaUnderFailure ==
  /\ chain.phase = "idle"
  /\ \E b \in FailureBodies, storageUp \in BOOLEAN :
       /\ req' = [op |-> "handleAlexaRoute", type |-> b.op, intent |-> b.intent,
                  token |-> b.token, storageUp |-> storageUp]
       /\ resp' = IF storageUp
                  THEN handleAlexaRoute(db, AlexaBody(b.op, b.intent, NoSlots, NoRaw,
                                                      b.token, NoOffset))
                  ELSE handleAlexaRouteStorageDown(
                         db, AlexaBody(b.op, b.intent, NoSlots, NoRaw, b.token,
                                       NoOffset))
       /\ chain' = [FetchIdle EXCEPT !.phase = "done"]
  /\ UNCHANGED <<db, codec>>

\* the response is returned; nothing of the request is kept
Respond ==
  /\ chain.phase = "done"
  /\ req' = Idle
  /\ resp' = NoResp
  /\ chain' = FetchIdle
  /\ UNCHANGED <<db, codec>>

NextFailure ==
  \/ Receive
  \/ Fetch
  \/ Timer
  \/ AlexaUnderFailure
  \/ Respond

SpecFailure == InitFailure /\ [][NextFailure]_vars

(***************************************************************************)
(* Properties of requests under failures (SpecFailure)                     *)
(***************************************************************************)
\* the response names of the Music Skill API and of the standard Skill API
WellFormedNames ==
  {"GetPlayableContent.Response", "Initiate.Response", "GetItem.Response",
   "ErrorResponse", "StandardResponse"}

\* a Music Skill API event whose handler raised: a remote call of it was
\* exhausted, or Initiate came without contentId
HandlerRaised ==
  /\ req.op = "handler"
  /\ req.event.requestType = ""
  /\ \/ chain.exhausted
     \/ req.event.name = "Initiate" /\ req.event.namespace = "Alexa.Media.Playback"
        /\ ~req.event.hasContentId

\* a Music Skill API event no branch of handler recognises
IsUnrecognisedEvent ==
  /\ req.op = "handler"
  /\ req.event.requestType = ""
  /\ req.event.namespace # ""
  /\ <<req.event.namespace, req.event.name>> \notin
       {<<"Alexa.Media.Search", "GetPlayableContent">>,
        <<"Alexa.Media.Playback", "Initiate">>,
        <<"Alexa.Audio.PlayQueue", "GetNextItem">>,
        <<"Alexa.Audio.PlayQueue", "GetPreviousItem">>,
        <<"Alexa.Audio.PlayQueue", "GetItem">>}

C23_ExhaustedIsNotFound ==
  (chain.phase = "done" /\ req.op = "handler" /\ chain.exhausted) =>
    IF req.event.name \in {"GetPlayableContent", "Initiate"}
    THEN resp = buildContentNotFoundResponse
    ELSE resp = buildQueueFinishedResponse

(***************************************************************************)
(* Properties of navigation with an invalid token (Spec)                   *)
(***************************************************************************)
\* the token of the request is missing or decodeToken gives null for it
IsInvalidToken(tok) ==
  ~tok.issued /\ (~tok.raw.some \/ ~StrTruthy(tok.raw.v) \/ decodeToken(tok.raw.v) = JNull)

\* C24: in every Protocol B navigation path (voice Next/Previous intent,
\* physical Next/Previous control, near-end-of-track event), a request
\* whose token is missing or fails to decode gets the same response as a
\* request whose token decodes but has no adjacent track: the spoken
\* no-next / no-previous message for the intents, the empty
\* acknowledgement for the controls and the event.
C24_InvalidTokenIsNotFound ==
  (IsNavRequest /\ IsInvalidToken(req.token)) =>
    /\ ~resp.threw
    /\ IsNoResultAnswer

(***************************************************************************)
(* Two runs of a server instance over the same storage (SpecHistory).  The *)
(* first run serves the probed request as its first request; a restart     *)
(* begins the second run with a fresh instance, which serves a history of  *)
(* earlier requests and then the probed request.  chain holds              *)
(* what an instance keeps between requests (MusicServer.initialized), the  *)
(* number of requests the instance has served, and the observer's record   *)
(* of the answers to the probed request.                                   *)
(***************************************************************************)
\* requests of one history
MaxHistory == 2

\* the tokens of the probed Protocol B requests: every track in the all
\* context and in the context of the playlist
ProbeTokens ==
  {tok \in NavTokens :
     /\ tok.trackId \in TrackIds
     /\ tok.ctx \in {[kind |-> "all", id |-> <<>>],
                     [kind |-> "playlist", id |-> PlaylistId]}}

\* the probed navigation requests of both protocols
ProbeRequests ==
  {[op |-> o, currentTrackId |-> t, playlistId |-> p] :
     o \in {"handleGetNextTrack", "handleGetPreviousTrack"}, t \in TrackIds,
     p \in {Undefined, PlaylistId}}
  \cup {[op |-> o, currentItemId |-> t] :
          o \in {"handleGetNextItem", "handleGetPreviousItem", "handleGetItem"},
          t \in TrackIds}
  \cup {[op |-> "handleInitiate", contentId |-> c] :
          c \in {S_contentAllCurrent, currentFormat(S_PLAYLIST, PlaylistId)}}
  \cup {[op |-> "IntentRequest", intent |-> i, token |-> tok] :
          i \in NavIntents, tok \in ProbeTokens}
  \cup {[op |-> "AudioPlayer.PlaybackNearlyFinished", intent |-> "", token |-> tok] :
          tok \in ProbeTokens}

\* the requests a history is made of: get-next-item for the newest track
\* and a Next intent with the token of the newest track
EarlierRequests ==
  {[op |-> "handleGetNextItem", currentItemId |-> TrackId(MaxTracks)],
   [op |-> "IntentRequest", intent |-> "AMAZON.NextIntent",
    token |-> CHOOSE tok \in ProbeTokens :
                tok.trackId = TrackId(MaxTracks) /\ tok.ctx.kind = "all"]}

\* the answer of the system to a request, by the handler of its operation
AnswerOf(d, r) ==
  CASE r.op = "handleGetNextTrack" ->
         handleGetNextTrack(d, r.currentTrackId, r.playlistId)
    [] r.op = "handleGetPreviousTrack" ->
         handleGetPreviousTrack(d, r.currentTrackId, r.playlistId)
    [] r.op = "handleGetNextItem" -> handleGetNextItem(d, r.currentItemId)
    [] r.op = "handleGetPreviousItem" -> handleGetPreviousItem(d, r.currentItemId)
    [] r.op = "handleGetItem" -> handleGetItem(d, r.currentItemId)
    [] r.op = "handleInitiate" -> handleInitiate(d, r.contentId)
    [] r.op = "IntentRequest" ->
         handleAlexaRoute(d, AlexaBody("IntentRequest", r.intent, NoSlots, NoRaw,
                                       r.token.raw, NoOffset))
    [] OTHER ->
         handleAlexaRoute(d, AlexaBody(r.op, "", NoSlots, r.token.raw, NoRaw, NoOffset))

InitHistory ==
  /\ db \in Storages
  /\ req = Idle
  /\ resp = NoResp
  /\ codec = CodecIdle
  /\ \E probe \in ProbeRequests :
       chain = [phase |-> "serving", run |-> 1, initialized |-> FALSE,
                served |-> 0, probe |-> probe, answered |-> FALSE,
                first |-> NoResp, second |-> NoResp]

\* a request of the history of the second run: it is answered, the
\* instance is initialised by then (ensureInitialized) and keeps nothing
\* else
Earlier ==
  /\ chain.phase = "serving"
  /\ chain.run = 2
  /\ ~chain.answered
  /\ chain.served < MaxHistory
  /\ \E r \in EarlierRequests :
       /\ req' = r
       /\ resp' = AnswerOf(db, r)
       /\ chain' = [chain EXCEPT !.initialized = TRUE, !.served = @ + 1]
  /\ UNCHANGED <<db, codec>>

\* the probed request of the run (in the first run with no history)
Probe ==
  /\ chain.phase = "serving"
  /\ ~chain.answered
  /\ req' = chain.probe
  /\ resp' = AnswerOf(db, chain.probe)
  /\ chain' = [chain EXCEPT
       !.initialized = TRUE,
       !.answered = TRUE,
       !.first = IF chain.run = 1 THEN resp' ELSE @,
       !.second = IF chain.run = 2 THEN resp' ELSE @]
  /\ UNCHANGED <<db, codec>>

\* the second run: a fresh server instance (new MusicServer) over the same
\* storage
Restart ==
  /\ chain.phase = "serving"
  /\ chain.run = 1
  /\ chain.answered
  /\ req' = Idle
  /\ resp' = NoResp
  /\ chain' = [chain EXCEPT !.run = 2, !.initialized = FALSE, !.served = 0,
                            !.answered = FALSE]
  /\ UNCHANGED <<db, codec>>

NextHistory ==
  \/ Earlier
  \/ Probe
  \/ Restart

SpecHistory == InitHistory /\ [][NextHistory]_vars

RaceTokens ==
  {t \in NavTokens : t.trackId \in TrackIds
                     /\ t.ctx \in {[kind |-> "all", id |-> <<>>],
                                   [kind |-> "artist", id |-> ArtistId(1)],
                                   [kind |-> "playlist", id |-> PlaylistId]}}

RaceRequests ==
  {[op |-> o, direction |-> d, token |-> t, currentTrackId |-> t.trackId,
    playlistId |-> Undefined] :
     o \in {"handleNavigateIntent", "handlePlaybackController"},
     d \in {"next", "previous"}, t \in RaceTokens}
  \cup {[op |-> "handleAudioPlayerEvent", direction |-> "next", token |-> t,
         currentTrackId |-> t.trackId, playlistId |-> Undefined] :
          t \in RaceTokens}
  \cup {[op |-> o[1], direction |-> o[2], token |-> NoRaw, currentTrackId |-> c,
         playlistId |-> p] :
          o \in {<<"handleGetNextTrack", "next">>,
                 <<"handleGetPreviousTrack", "previous">>},
          c \in TrackIds, p \in {Undefined, PlaylistId}}
  \cup {[op |-> o[1], direction |-> o[2], token |-> NoRaw, currentTrackId |-> c,
         playlistId |-> Undefined] :
          o \in {<<"handleGetNextItem", "next">>,
                 <<"handleGetPreviousItem", "previous">>},
          c \in TrackIds}

IsVoiceRequest(r) ==
  r.op \in {"handleNavigateIntent", "handlePlaybackController",
            "handleAudioPlayerEvent"}

\* the request up to its lookup: the token is decoded and the id list read
RaceTarget(d, r) ==
  IF IsVoiceRequest(r)
    THEN AdjacentTarget(d, decodeToken(r.token.raw.v), r.direction)
  ELSE IF r.direction = "next"
    THEN NextTrackTarget(d, r.currentTrackId, r.playlistId)
  ELSE PreviousTrackTarget(d, r.currentTrackId, r.playlistId)

\* the rest of the request: the lookup in the storage of that moment (when
\* the request has one) and the answer built from it
RaceAnswer(d, r, target) ==
  LET token == decodeToken(r.token.raw.v)
      adjacent ==
        IF ~target.lookup THEN target.result
        ELSE Ok(getTrack(d, target.targetId))
      served ==
        IF ~target.lookup THEN target.result
        ELSE IF r.direction = "next"
          THEN NextTrackFound(target, getTrack(d, target.targetId))
        ELSE PreviousTrackFound(target, getTrack(d, target.targetId))
  IN CASE r.op = "handleNavigateIntent" ->
            NavigateAdjacent(token, adjacent, r.direction)
       [] r.op = "handlePlaybackController" -> ControllerAdjacent(token, adjacent)
       [] r.op = "handleAudioPlayerEvent" ->
            EnqueueNext(token, adjacent, r.token.raw)
       [] r.op \in {"handleGetNextTrack", "handleGetPreviousTrack"} -> Ok(served)
       [] OTHER -> Ok(AdjacentItemResponse(NextPrevResult(served)))

RaceIdle == [phase |-> "idle", target |-> Returns(None), archived |-> {}]

InitRace ==
  /\ db \in Storages
  /\ req = Idle
  /\ resp = NoResp
  /\ codec = CodecIdle
  /\ chain = RaceIdle

\* a navigation request arrives and runs to its last await
Arrive ==
  /\ chain.phase = "idle"
  /\ \E r \in RaceRequests :
       /\ req' = r
       /\ chain' = [chain EXCEPT !.phase = IF RaceTarget(db, r).lookup
                                           THEN "lookup" ELSE "answered",
                                 !.target = RaceTarget(db, r)]
       /\ resp' = IF RaceTarget(db, r).lookup THEN NoResp
                  ELSE [name |-> "answer",
                        result |-> RaceAnswer(db, r, RaceTarget(db, r))]
  /\ UNCHANGED <<db, codec>>

\* POST /api/tracks/:id/archive (or the archive-track message) of a stored
\* track commits while the navigation request waits for its lookup
Archive ==
  /\ chain.phase = "lookup"
  /\ \E id \in TrackIds :
       /\ getTrack(db, id).some
       /\ db' = archiveTrack(db, id)
       /\ chain' = [chain EXCEPT !.archived = @ \cup {id}]
  /\ UNCHANGED <<req, resp, codec>>

\* the awaited db.getTrack returns and the request is answered
Lookup ==
  /\ chain.phase = "lookup"
  /\ resp' = [name |-> "answer", result |-> RaceAnswer(db, req, chain.target)]
  /\ chain' = [chain EXCEPT !.phase = "answered"]
  /\ UNCHANGED <<db, req, codec>>

NextRace ==
  \/ Arrive
  \/ Archive
  \/ Lookup

SpecRace == InitRace /\ [][NextRace]_vars

\* the answer of the handler that runs without interruption
AtomicAnswer(d, r) ==
  CASE r.op = "handleNavigateIntent" ->
         handleNavigateIntent(d, r.token.raw, r.direction)
    [] r.op = "handlePlaybackController" ->
         ControllerNavigate(d, decodeContextToken(r.token.raw), r.direction)
    [] r.op = "handleAudioPlayerEvent" ->
         handleAudioPlayerEvent(d, [type |-> "AudioPlayer.PlaybackNearlyFinished",
                                    token |-> r.token.raw])
    [] r.op = "handleGetNextTrack" ->
         Ok(handleGetNextTrack(d, r.currentTrackId, r.playlistId))
    [] r.op = "handleGetPreviousTrack" ->
         Ok(handleGetPreviousTrack(d, r.currentTrackId, r.playlistId))
    [] r.op = "handleGetNextItem" -> Ok(handleGetNextItem(d, r.currentTrackId))
    [] OTHER -> Ok(handleGetPreviousItem(d, r.currentTrackId))

\* the NotFound outcome of a navigation request
RaceNotFound(r) ==
  CASE r.op = "handleNavigateIntent" ->
         Ok(buildSpeechResponse(IF r.direction = "next" THEN T_noNext
                                ELSE T_noPrevious, FALSE))
    [] r.op \in {"handlePlaybackController", "handleAudioPlayerEvent"} ->
         Ok(buildEmptyResponse)
    [] r.op \in {"handleGetNextTrack", "handleGetPreviousTrack"} ->
         Ok(NavBody(200, FALSE, None, FALSE))
    [] OTHER -> Ok(buildQueueFinishedResponse)

\* the id of the track an answer plays or returns; <<>> when it has none
AnsweredTrackId(r, result) ==
  IF ~result.ok THEN <<>>
  ELSE IF IsVoiceRequest(r)
    THEN (IF result.v.kind = "play" THEN result.v.trackId ELSE <<>>)
  ELSE IF r.op \in {"handleGetNextTrack", "handleGetPreviousTrack"}
    THEN (IF result.v.has THEN result.v.track.v.id ELSE <<>>)
  ELSE IF result.v.hasItem THEN result.v.item.id ELSE <<>>

\* C26: when a track is archived between the moment a navigation request
\* has read the id sequence of its context (its token decoded) and the
\* moment it looks the adjacent track up, the request does not fail; when
\* the track it looks up is absent from storage at that moment it ends with
\* the NotFound outcome (the spoken no-next / no-previous text, the empty
\* acknowledgement, hasNext / hasPrevious false, or queue-finished), and an
\* answer that plays or returns a track names the track that was looked up
\* and that track is in storage.
C26_ArchivedIsNotFound ==
  (chain.phase = "answered" /\ chain.target.lookup) =>
    /\ resp.result.ok
    /\ IF \E i \in 1..Len(db.tracks) : db.tracks[i].id = chain.target.targetId
       THEN AnsweredTrackId(req, resp.result) = chain.target.targetId
       ELSE resp.result = RaceNotFound(req)

\* the track after the current one is archived after the Next intent has
\* read the ids of the library: the intent is answered with the spoken
\* no-next text although another track follows in the library
C26_Witness ==
  /\ chain.phase = "answered"
  /\ chain.target.lookup
  /\ req.op = "handleNavigateIntent"
  /\ req.direction = "next"
  /\ req.token.ctx.kind = "all"
  /\ chain.archived = {chain.target.targetId}
  /\ resp.result = RaceNotFound(req)
  /\ AtomicAnswer(db, req).v.kind = "play"

\* a request that no archive interrupts is answered as the handler answers
RaceRefinesHandler ==
  (chain.phase = "answered" /\ chain.archived = {}) =>
    resp.result = AtomicAnswer(db, req)

(***************************************************************************)
(* The loop of fetchPartyKit under fair scheduling (SpecFetch): an awaited *)
(* fetch settles (with a response or a rejection) and a timer that was set *)
(* fires.                                                                  *)
(***************************************************************************)
\* the libraries without a playlist (the loop does not read the storage)
InitFetch ==
  /\ db \in {d \in Storages : d.playlists = <<>>}
  /\ req = Idle
  /\ resp = NoResp
  /\ codec = CodecIdle
  /\ chain = FetchIdle

NextFetch ==
  \/ Receive
  \/ Fetch
  \/ Timer
  \/ Respond

\* the awaited fetch settles: the step of Fetch as the loop sees it,
\* whether or not the handler has another call to make
FetchSettles ==
  /\ chain.phase = "attempt"
  /\ \E outcome \in FetchOutcomes, calls \in {chain.call, chain.call + 1} :
       chain' = AfterFetch(outcome, calls)

\* an awaited fetch settles (with a response or a rejection) and a timer
\* that was set fires
SpecFetch ==
  InitFetch /\ [][NextFetch]_vars /\ WF_chain(FetchSettles) /\ WF_vars(Timer)

IsFetchFailure(outcome) == outcome \in {"http503", "networkError"}

\* the waits of a call that has made its first n attempts and goes on
WaitsBefore(n) == [i \in 1..n |-> IF i = 1 THEN 200 ELSE 400]

\* the loop at any moment of a call: at most three attempts, every attempt
\* but the last one of the log failed (5xx or network error), a wait of
\* 200 ms then 400 ms precedes each further attempt, and a call that is
\* over either returned the response of its last attempt, with no wait
\* after it, or raised the error of its third failed attempt, with no wait
\* after it
FetchShape ==
  /\ chain.attempt \in 0..(MAX_RETRIES - 1)
  /\ Len(chain.log) <= MAX_RETRIES
  /\ \A i \in 1..(Len(chain.log) - 1) : IsFetchFailure(chain.log[i])
  /\ chain.waits = WaitsBefore(chain.attempt)
  /\ chain.phase = "attempt" => Len(chain.log) = chain.attempt
  /\ chain.phase = "wait" =>
       /\ Len(chain.log) = chain.attempt + 1
       /\ chain.attempt < MAX_RETRIES - 1
       /\ IsFetchFailure(chain.log[Len(chain.log)])
  /\ (chain.phase = "done" /\ chain.call > 0) =>
       /\ Len(chain.log) = chain.attempt + 1
       /\ IF chain.exhausted
          THEN /\ Len(chain.log) = MAX_RETRIES
               /\ IsFetchFailure(chain.log[MAX_RETRIES])
               /\ chain.thrown = chain.log[MAX_RETRIES]
               /\ chain.waits = <<200, 400>>
          ELSE /\ chain.log[Len(chain.log)] = "served"
               /\ chain.thrown = "none"

C28_FlagSingleSource ==
  (chain.phase \in {"playing", "finished"} /\ Len(chain.moves) >= 1) =>
    /\ chain.moves[1] = "current" =>
         /\ chain.refreshes[1].hasItem
         /\ chain.refreshes[1].hasNext = chain.flags[1]
    /\ chain.moves[1] = "next" => (chain.flags[1] <=> Len(chain.items) >= 2)

(***************************************************************************)
(* A Protocol B playback session (SpecPlayback): PlayAllIntent, then the   *)
(* player reports the near end of each track with the token of the stream  *)
(* it received last.  chain is the player's record of the session: the     *)
(* tracks and play behaviours it received and the events it sent; resp is  *)
(* the response received last.                                             *)
(***************************************************************************)
PlaybackIdle == [phase |-> "idle", played |-> <<>>, behaviors |-> <<>>, events |-> 0]

InitPlayback ==
  /\ db \in Storages
  /\ req = Idle
  /\ resp = NoResp
  /\ codec = CodecIdle
  /\ chain = PlaybackIdle

\* the session after a response to the given number of events so far: a
\* Play directive is one more stream, anything else ends the session
AfterDirective(body, events) ==
  IF body.kind = "play"
  THEN [phase |-> "playing", played |-> Append(chain.played, body.trackId),
        behaviors |-> Append(chain.behaviors, body.playBehavior),
        events |-> events]
  ELSE [chain EXCEPT !.phase = IF events = 0 THEN "silent" ELSE "ended",
                     !.events = events]

\* POST /api/alexa with PlayAllIntent
PlayAll ==
  /\ chain.phase = "idle"
  /\ req' = [op |-> "IntentRequest", intent |-> "PlayAllIntent"]
  /\ resp' = handleAlexaRoute(db, AlexaBody("IntentRequest", "PlayAllIntent", NoSlots,
                                            NoRaw, NoRaw, NoOffset))
  /\ chain' = AfterDirective(resp'.body, 0)
  /\ UNCHANGED <<db, codec>>

\* POST /api/alexa with AudioPlayer.PlaybackNearlyFinished for the stream
\* received last
NearlyFinished ==
  /\ chain.phase = "playing"
  /\ req' = [op |-> "AudioPlayer.PlaybackNearlyFinished",
             token |-> SomeRaw(resp.body.token)]
  /\ resp' = handleAlexaRoute(db, AlexaBody("AudioPlayer.PlaybackNearlyFinished", "",
                                            NoSlots, req'.token, req'.token, NoOffset))
  /\ chain' = AfterDirective(resp'.body, chain.events + 1)
  /\ UNCHANGED <<db, codec>>

NextPlayback ==
  \/ PlayAll
  \/ NearlyFinished

\* the near end of a stream is reported: the step of NearlyFinished as the
\* player sees it, whatever the directive
EventAnswered ==
  /\ chain.phase = "playing"
  /\ \E kind \in {"play", "empty"}, id \in TrackIds,
        behavior \in {"REPLACE_ALL", "ENQUEUE"} :
       chain' = AfterDirective([kind |-> kind, trackId |-> id,
                                playBehavior |-> behavior], chain.events + 1)

\* the player reports the near end of every stream it plays
SpecPlayback ==
  InitPlayback /\ [][NextPlayback]_vars /\ WF_chain(EventAnswered)

\* the session at any moment: the streams received are the first tracks of
\* the library, newest first, the first with REPLACE_ALL and every later
\* one with ENQUEUE, one per event; the session ends with the empty
\* acknowledgement for the event after the last track
PlaybackShape ==
  LET all == IdsOf(db.tracks)
      N == Len(all)
  IN /\ chain.phase = "silent" => N = 0
     /\ chain.phase \in {"playing", "ended"} =>
          /\ N >= 1
          /\ Len(chain.played) <= N
          /\ chain.played = SubSeq(all, 1, Len(chain.played))
          /\ chain.behaviors =
               [k \in 1..Len(chain.played) |->
                  IF k = 1 THEN "REPLACE_ALL" ELSE "ENQUEUE"]
     /\ chain.phase = "playing" =>
          /\ chain.events = Len(chain.played) - 1
          /\ chain.events < N
          /\ Len(chain.played) >= 2 =>
               resp.body.expectedPreviousToken = req.token
     /\ chain.phase = "ended" =>
          /\ chain.played = all
          /\ chain.events = N
          /\ ~resp.threw
          /\ resp.body = buildEmptyResponse

\* C29: from PlayAllIntent on a library of N >= 1 tracks with unchanged
\* storage, answering each near-end-of-track event with the token of the
\* most recently enqueued track yields ENQUEUE directives for the 2nd to
\* N-th track, newest first, each track once; the N-th event gets the
\* empty acknowledgement; and playback always reaches that end.
C29_PlayAllReachesEnd ==
  /\ []PlaybackShape
  /\ (chain.phase = "playing") ~> (chain.phase = "ended")

\* a library of MaxTracks tracks played to its end
C29_Witness ==
  /\ chain.phase = "ended"
  /\ Len(db.tracks) = MaxTracks
  /\ chain.events = MaxTracks
  /\ Len(chain.played) = MaxTracks
  /\ chain.behaviors[MaxTracks] = "ENQUEUE"

(***************************************************************************)
(* A move and the move back (SpecUndo): a navigation request of either     *)
(* protocol, then the request of the opposite direction with the token (or *)
(* the item id) the first one returned, against the same storage.          *)
(***************************************************************************)
Opposite(direction) == IF direction = "next" THEN "previous" ELSE "next"

\* the Protocol B request types that navigate in a direction
NavTypes(direction) ==
  IF direction = "next"
  THEN {<<"IntentRequest", "AMAZON.NextIntent">>,
        <<"PlaybackController.NextCommandIssued", "">>,
        <<"AudioPlayer.PlaybackNearlyFinished", "">>}
  ELSE {<<"IntentRequest", "AMAZON.PreviousIntent">>,
        <<"PlaybackController.PreviousCommandIssued", "">>}

\* the {trackId, context} a Protocol B token string decodes to
TokenFields(raw) ==
  [trackId |-> GetProp(decodeToken(raw.v), S_trackId),
   context |-> GetProp(decodeToken(raw.v), S_context)]

NoFields == [trackId |-> JNull, context |-> JNull]

\* a Protocol B navigation request with the token string in the event
\* and in the player context; fields is what the token holds
NavRequest(type, direction, raw, fields) ==
  [op |-> type[1], intent |-> type[2], direction |-> direction, token |-> raw,
   fields |-> fields]

\* a Protocol A adjacent-item request
ItemRequest(direction, currentItemId) ==
  [op |-> IF direction = "next" THEN "handleGetNextItem" ELSE "handleGetPreviousItem",
   intent |-> "", direction |-> direction, token |-> currentItemId,
   fields |-> NoFields]

IsItemRequest(r) == r.op \in {"handleGetNextItem", "handleGetPreviousItem"}

\* the answer to a request, with the track it moves to (<<>> when none)
\* and, for a Play directive, its token and what the token decodes to
Move(d, r) ==
  LET ofItem(res) ==
        [body |-> res, moved |-> res.hasItem, trackId |-> res.item.id,
         token |-> res.item.id, fields |-> NoFields]
      ofRoute(res) ==
        IF res.body.kind = "play"
        THEN [body |-> res.body, moved |-> TRUE, trackId |-> res.body.trackId,
              token |-> SomeRaw(res.body.token),
              fields |-> TokenFields(SomeRaw(res.body.token))]
        ELSE [body |-> res.body, moved |-> FALSE, trackId |-> <<>>,
              token |-> NoRaw, fields |-> NoFields]
  IN IF r.op = "handleGetNextItem" THEN ofItem(handleGetNextItem(d, r.token))
     ELSE IF r.op = "handleGetPreviousItem"
       THEN ofItem(handleGetPreviousItem(d, r.token))
     ELSE ofRoute(handleAlexaRoute(d, AlexaBody(r.op, r.intent, NoSlots, r.token,
                                                r.token, NoOffset)))

UndoIdle == [phase |-> "idle"]

InitUndo ==
  /\ db \in Storages
  /\ req = Idle
  /\ resp = NoResp
  /\ codec = CodecIdle
  /\ chain = UndoIdle

\* a navigation request with an issued token, or with the id of an item
MoveThere ==
  /\ chain.phase = "idle"
  /\ \E direction \in {"next", "previous"} :
       \/ \E id \in TrackIds \cup {UnknownTrackId} :
            req' = ItemRequest(direction, id)
       \/ \E type \in NavTypes(direction), t \in NavTokens :
            req' = NavRequest(type, direction, t.raw,
                              [trackId |-> JStr(t.trackId),
                               context |-> JStr(ContextString(t.ctx))])
  /\ resp' = Move(db, req')
  /\ chain' = [phase |-> IF resp'.moved THEN "there" ELSE "stayed",
               first |-> req', there |-> resp']
  /\ UNCHANGED <<db, codec>>

\* the request of the opposite direction with what the first one returned
MoveBack ==
  /\ chain.phase = "there"
  /\ IF IsItemRequest(req)
     THEN req' = ItemRequest(Opposite(req.direction), resp.token)
     ELSE \E type \in NavTypes(Opposite(req.direction)) :
            req' = NavRequest(type, Opposite(req.direction), resp.token, resp.fields)
  /\ resp' = Move(db, req')
  /\ chain' = [chain EXCEPT !.phase = "back"]
  /\ UNCHANGED <<db, codec>>

NextUndo ==
  \/ MoveThere
  \/ MoveBack

SpecUndo == InitUndo /\ [][NextUndo]_vars

\* C30: with unchanged storage, whenever a Next request with token {t, c}
\* returns a Play directive with token {u, c}, a Previous request with
\* token {u, c} returns a Play directive with token {t, c}, and
\* symmetrically for Previous then Next; whenever get-next-item for item t
\* returns item u, get-previous-item for u returns t, and symmetrically.
C30_PreviousUndoesNext ==
  /\ (chain.phase \in {"there", "back"} /\ ~IsItemRequest(chain.first)) =>
       chain.there.fields.context = chain.first.fields.context
  /\ chain.phase = "back" =>
       /\ resp.moved
       /\ IF IsItemRequest(req)
          THEN resp.trackId = chain.first.token
          ELSE /\ resp.fields = chain.first.fields
               /\ resp.trackId = chain.first.fields.trackId.s

\* a Previous intent in a playlist context that returned the first row of
\* the playlist, which is not the newest track of the library, undone by
\* the Next control
C30_Witness ==
  /\ chain.phase = "back"
  /\ chain.first.intent = "AMAZON.PreviousIntent"
  /\ req.op = "PlaybackController.NextCommandIssued"
  /\ chain.first.fields.context = JStr(S_playlistPrefix \o PlaylistId)
  /\ chain.there.trackId # db.tracks[1].id
  /\ resp.moved

(***************************************************************************)
(* A Protocol B session of one player (SpecSession).  A play intent starts *)
(* the session; the player then takes the stream of each Play directive    *)
(* and sends navigation, resumption and near-end-of-track requests with    *)
(* the token of the stream it took last.  chain is the player: the token   *)
(* it holds and, while a response is on its way, what the token of that    *)
(* response decodes to.                                                    *)
(***************************************************************************)
SessionIdle == [phase |-> "ready", held |-> NoRaw, emitted |-> NoFields]

InitSession ==
  /\ db \in Storages
  /\ req = Idle
  /\ resp = NoResp
  /\ codec = CodecIdle
  /\ chain = SessionIdle

\* the player while the response is on its way
AfterResponse(res) ==
  [chain EXCEPT !.phase = "answered",
                !.emitted = IF res.body.kind = "play"
                            THEN TokenFields(SomeRaw(res.body.token))
                            ELSE NoFields]

\* a play intent starts the session; it presents no token
SessionPlay ==
  /\ chain = SessionIdle
  /\ \E intent \in PlayIntents :
     \E query \in IF intent = "PlayAllIntent" THEN {Undefined} ELSE Queries :
       /\ req' = [op |-> "IntentRequest", intent |-> intent, query |-> query]
       /\ resp' = handleAlexaRoute(db, AlexaBody("IntentRequest", intent,
                                                 SlotsOf(intent, query), NoRaw, NoRaw,
                                                 NoOffset))
  /\ chain' = AfterResponse(resp')
  /\ UNCHANGED <<db, codec>>

\* navigation by voice or by the physical control, or the near end of the
\* stream, with the token held
SessionNavigate ==
  /\ chain.phase = "ready"
  /\ \E direction \in {"next", "previous"} :
     \E type \in NavTypes(direction) :
       /\ req' = [op |-> type[1], intent |-> type[2], query |-> Undefined]
       /\ resp' = handleAlexaRoute(db, AlexaBody(type[1], type[2], NoSlots,
                                                 chain.held, chain.held, NoOffset))
  /\ chain' = AfterResponse(resp')
  /\ UNCHANGED <<db, codec>>

\* resumption by voice or by the physical control with the token held
SessionResume ==
  /\ chain.phase = "ready"
  /\ \E type \in {<<"IntentRequest", "AMAZON.ResumeIntent">>,
                  <<"PlaybackController.PlayCommandIssued", "">>},
        offset \in Offsets :
       /\ req' = [op |-> type[1], intent |-> type[2], query |-> Undefined,
                  offset |-> offset]
       /\ resp' = handleAlexaRoute(db, AlexaBody(type[1], type[2], NoSlots, NoRaw,
                                                 chain.held, offset))
  /\ chain' = AfterResponse(resp')
  /\ UNCHANGED <<db, codec>>

\* the player takes the response: the token of a Play directive replaces
\* the token held, any other response leaves it
SessionStream ==
  /\ chain.phase = "answered"
  /\ chain' = [phase |-> "ready",
               held |-> IF resp.body.kind = "play" THEN SomeRaw(resp.body.token)
                        ELSE chain.held,
               emitted |-> NoFields]
  /\ req' = Idle
  /\ resp' = NoResp
  /\ UNCHANGED <<db, codec>>

\* the session ends; the next play intent starts another
SessionEnd ==
  /\ chain.phase = "ready"
  /\ chain.held.some
  /\ chain' = SessionIdle
  /\ UNCHANGED <<db, codec, req, resp>>

NextSession ==
  \/ SessionPlay
  \/ SessionNavigate
  \/ SessionResume
  \/ SessionStream
  \/ SessionEnd

SpecSession == InitSession /\ [][NextSession]_vars

\* the playback context a context string names
ContextOfString(context) ==
  IF context = S_all THEN [kind |-> "all", id |-> <<>>]
  ELSE IF context = S_single THEN [kind |-> "single", id |-> <<>>]
  ELSE IF StartsWith(context, S_playlistPrefix)
    THEN [kind |-> "playlist", id |-> Slice(context, Len(S_playlistPrefix))]
  ELSE IF StartsWith(context, S_artistPrefix)
    THEN [kind |-> "artist", id |-> Slice(context, Len(S_artistPrefix))]
  ELSE NoContext

\* C31: in a run with unchanged storage in which every token the client
\* presents was emitted by an earlier response, every token emitted in a
\* Play directive is a token {trackId, context} whose track id exists in
\* storage (it is the track the directive plays) and, unless the context
\* is single, is a member of the resolved sequence of that context.
C31_EmittedTokensValid ==
  (resp # NoResp /\ resp.body.kind = "play") =>
    /\ chain.emitted.trackId.k = "str"
    /\ chain.emitted.context.k = "str"
    /\ chain.emitted.trackId.s = resp.body.trackId
    /\ chain.emitted.trackId.s \in Elements(IdsOf(db.tracks))
    /\ ContextOfString(chain.emitted.context.s) # NoContext
    /\ chain.emitted.context.s # S_single =>
         chain.emitted.trackId.s \in
           Elements(ResolvedSequence(db, ContextOfString(chain.emitted.context.s)))

\* the Previous control with a token of a playlist context that an earlier
\* response emitted: the token emitted names a row of the playlist that is
\* not the newest track of the library
C31_Witness ==
  /\ req.op = "PlaybackController.PreviousCommandIssued"
  /\ resp.body.kind = "play"
  /\ ContextOfString(chain.emitted.context.s).kind = "playlist"
  /\ Len(db.tracks) >= 2
  /\ chain.emitted.trackId.s # db.tracks[1].id

\* C32: with unchanged storage, whenever Selection succeeds and returns a
\* ContentReference, Initiation with that ContentReference succeeds and
\* returns a first item: it never answers content-not-found.
C32_SelectionInitiates ==
  (req # Idle /\ req.op = "handleInitiate") =>
    /\ resp.name = "Initiate.Response"
    /\ chain.phase # "refused"

\* C33: in every Protocol A queue-lifecycle response (get-current-item,
\* get-next-item, get-previous-item), isQueueFinished is true only when the
\* response carries no item: a response that carries an item never
\* declares the queue finished.
C33_FinishedOnlyWithoutItem ==
  (resp.name = "GetItem.Response" /\ resp.isQueueFinished) => ~resp.hasItem

(***************************************************************************)
(* hash.ts: stable ids derived from names.  A 64-bit value is held as four *)
(* 16-bit limbs, least significant first.                                  *)
(***************************************************************************)
Limb == 2^16

\* the UTF-8 bytes of a code unit (TextEncoder, no surrogates)
Utf8OfUnit(c) ==
  IF c < 128 THEN <<c>>
  ELSE IF c < 2048 THEN <<192 + (c \div 64), 128 + (c % 64)>>
  ELSE <<224 + (c \div 4096), 128 + ((c \div 64) % 64), 128 + (c % 64)>>

RECURSIVE Utf8(_)
Utf8(str) == IF Len(str) = 0 THEN <<>> ELSE Utf8OfUnit(Head(str)) \o Utf8(Tail(str))

\* the bit of weight k of a ^ b
XorBit(a, b, k) == ((((a \div k) % 2) + ((b \div k) % 2)) % 2) * k

\* hash ^= BigInt(byte): the low eight bits change
XorByte(hash, byte) ==
  [hash EXCEPT ![1] = (@ - (@ % 256))
                      + XorBit(@, byte, 1) + XorBit(@, byte, 2) + XorBit(@, byte, 4)
                      + XorBit(@, byte, 8) + XorBit(@, byte, 16) + XorBit(@, byte, 32)
                      + XorBit(@, byte, 64) + XorBit(@, byte, 128)]

\* (hash * FNV_PRIME) & 0xFFFFFFFFFFFFFFFF with FNV_PRIME = 2^40 + 435
TimesPrime(hash) ==
  LET t1 == hash[1] * 435
      t2 == (hash[2] * 435) + (t1 \div Limb)
      t3 == (hash[3] * 435) + (t2 \div Limb) + ((hash[1] * 256) % Limb)
      t4 == (hash[4] * 435) + (t3 \div Limb) + (hash[2] * 256) + (hash[1] \div 256)
  IN <<t1 % Limb, t2 % Limb, t3 % Limb, t4 % Limb>>

\* FNV_OFFSET = 14695981039346656037 = 0xCBF29CE484222325
FNV_OFFSET == <<8997, 33826, 40164, 52210>>

\* a value of 64 bits
IsHash64(hash) == \A i \in 1..4 : hash[i] >= 0 /\ hash[i] < Limb

\* the loop over the bytes; the value stays within 64 bits at every step
RECURSIVE FnvLoop(_, _)
FnvLoop(hash, bytes) ==
  IF Len(bytes) = 0 \/ ~IsHash64(hash) THEN hash
  ELSE FnvLoop(TimesPrime(XorByte(hash, Head(bytes))), Tail(bytes))

\* quotient and remainder of a 64-bit value by 36
DivMod36(hash) ==
  LET c4 == hash[4]
      c3 == (c4 % 36) * Limb + hash[3]
      c2 == (c3 % 36) * Limb + hash[2]
      c1 == (c2 % 36) * Limb + hash[1]
  IN [q |-> <<c1 \div 36, c2 \div 36, c3 \div 36, c4 \div 36>>, r |-> c1 % 36]

\* the digit characters of toString(36)
Digit36(r) == IF r < 10 THEN 48 + r ELSE 87 + r

\* BigInt.prototype.toString(36)
RECURSIVE Base36Digits(_)
Base36Digits(hash) ==
  IF hash = <<0, 0, 0, 0>> THEN <<>>
  ELSE Base36Digits(DivMod36(hash).q) \o <<Digit36(DivMod36(hash).r)>>
ToBase36(hash) == IF hash = <<0, 0, 0, 0>> THEN <<48>> ELSE Base36Digits(hash)

\* fnv1a64(str): FNV-1a over the UTF-8 bytes, in base 36
fnv1a64(str) == ToBase36(FnvLoop(FNV_OFFSET, Utf8(str)))

\* String.prototype.trim
RECURSIVE TrimStart(_)
TrimStart(str) ==
  IF Len(str) > 0 /\ IsJsWhitespace(Head(str)) THEN TrimStart(Tail(str)) ELSE str
RECURSIVE TrimEnd(_)
TrimEnd(str) ==
  IF Len(str) > 0 /\ IsJsWhitespace(str[Len(str)])
  THEN TrimEnd(SubSeq(str, 1, Len(str) - 1)) ELSE str

\* normalize: NFKC (the names drawn are in that form), lower case, trim
normalize(str) == TrimEnd(TrimStart(ToLowerCase(str)))

\* "artist."
S_artistDot == <<97, 114, 116, 105, 115, 116, 46>>

\* deriveArtistId(artistName)
deriveArtistId(artistName) == S_artistDot \o fnv1a64(normalize(artistName))

\* "不明なアーティスト"
T_unknownArtist == <<19981, 26126, 12394, 12450, 12540, 12486, 12451, 12473, 12488>>

(***************************************************************************)
(* db.ts: operations that change storage.  Each returns storage after the  *)
(* call (d), whether it returned (ok) or threw, and its value (v).  The    *)
(* tracks are held newest first (ORDER BY added_at DESC), the playlists    *)
(* newest first (ORDER BY created_at DESC) and the trackIds of a playlist  *)
(* are the track_id of its playlist_tracks rows ORDER BY position: pos++   *)
(* appends a row, a DELETE leaves the positions of the other rows.         *)
(***************************************************************************)
Stored(d, v) == [d |-> d, ok |-> TRUE, v |-> v]
Failed(d) == [d |-> d, ok |-> FALSE, v |-> FALSE]

\* INSERT OR IGNORE INTO artists (id, name, keywords)
InsertOrIgnoreArtist(d, row) ==
  IF \E i \in 1..Len(d.artists) : d.artists[i].id = row.id THEN d
  ELSE [d EXCEPT !.artists = Append(@, row)]

ensureArtist(d, artistName) ==
  InsertOrIgnoreArtist(d, [id |-> deriveArtistId(artistName), name |-> artistName,
                           keywords |-> <<>>])

createArtist(d, name, keywords) ==
  InsertOrIgnoreArtist(d, [id |-> deriveArtistId(name), name |-> name,
                           keywords |-> keywords])

\* const unknownId = deriveArtistId("不明なアーティスト")
unknownId == deriveArtistId(T_unknownArtist)

\* archiveArtist: one write transaction; true when the DELETE removed a row
archiveArtist(d, id) ==
  LET moved(t) == IF t.artistId = id
                  THEN [t EXCEPT !.artist = T_unknownArtist, !.artistId = unknownId]
                  ELSE t
      updated(d1) == [d1 EXCEPT !.tracks = [i \in 1..Len(d1.tracks) |-> moved(d1.tracks[i])]]
      deleted(d2) ==
        Stored([d2 EXCEPT !.artists = SelectSeq(d2.artists, LAMBDA a : a.id # id)],
               \E i \in 1..Len(d2.artists) : d2.artists[i].id = id)
  IN deleted(updated(InsertOrIgnoreArtist(d,
       [id |-> unknownId, name |-> T_unknownArtist, keywords |-> <<>>])))

\* INSERT INTO tracks: the primary key rejects an id that has a row
InsertTrack(d, track) ==
  IF getTrack(d, track.id).some THEN Failed(d)
  ELSE Stored([d EXCEPT !.tracks = <<track>> \o @], TRUE)

\* addTrack: ensureArtist, then the INSERT (two statements, no transaction)
addTrack(d, track) == InsertTrack(ensureArtist(d, track.artist), track)

\* the UPDATE of updateTrack for fields.artist (title and album absent)
UpdateTrackArtist(d, id, artist) ==
  LET set(t) == IF t.id = id
                THEN [t EXCEPT !.artist = artist, !.artistId = deriveArtistId(artist)]
                ELSE t
  IN Stored([d EXCEPT !.tracks = [i \in 1..Len(d.tracks) |-> set(d.tracks[i])]],
            getTrack(d, id).some)

\* a field of an update: given with a value, or absent (undefined)
Given(v) == [some |-> TRUE, v |-> v]
Absent == [some |-> FALSE, v |-> <<>>]

\* updateTrack(id, {artist}): ensureArtist, then the UPDATE; no field, no change
updateTrack(d, id, artist) ==
  IF ~artist.some THEN Stored(d, FALSE)
  ELSE UpdateTrackArtist(ensureArtist(d, artist.v), id, artist.v)

\* the rows the loop of createPlaylist / updatePlaylist inserts: the ids of
\* trackIds that are not empty and have a row in tracks
RowsToInsert(d, trackIds) ==
  SelectSeq(trackIds, LAMBDA tid : StrTruthy(tid) /\ getTrack(d, tid).some)

\* PRIMARY KEY (playlist_id, track_id): the second INSERT of an id fails
ViolatesPrimaryKey(ids) == \E i, j \in 1..Len(ids) : i # j /\ ids[i] = ids[j]

\* createPlaylist: one write transaction; a failing INSERT rolls it back
createPlaylist(d, id, name, trackIds) ==
  IF getPlaylist(d, id).some \/ ViolatesPrimaryKey(RowsToInsert(d, trackIds))
  THEN Failed(d)
  ELSE Stored([d EXCEPT !.playlists =
                 <<[id |-> id, name |-> name,
                    trackIds |-> RowsToInsert(d, trackIds)]>> \o @],
              RowsToInsert(d, trackIds))

\* updatePlaylist(id, {name, trackIds}): one write transaction
updatePlaylist(d, id, name, trackIds) ==
  LET set(p) ==
        IF p.id # id THEN p
        ELSE [id |-> p.id,
              name |-> IF name.some THEN name.v ELSE p.name,
              trackIds |-> IF trackIds.some THEN RowsToInsert(d, trackIds.v)
                           ELSE p.trackIds]
  IN IF ~getPlaylist(d, id).some THEN Stored(d, FALSE)
     ELSE IF trackIds.some /\ ViolatesPrimaryKey(RowsToInsert(d, trackIds.v))
       THEN Failed(d)
     ELSE Stored([d EXCEPT !.playlists = [i \in 1..Len(@) |-> set(@[i])]], TRUE)

\* archivePlaylist: one write transaction
archivePlaylist(d, id) ==
  IF ~getPlaylist(d, id).some THEN Stored(d, FALSE)
  ELSE Stored([d EXCEPT !.playlists = SelectSeq(@, LAMBDA p : p.id # id)], TRUE)

(***************************************************************************)
(* Storage under the operations of the web UI (SpecStorage): tracks are    *)
(* added with fresh ids and archived, the playlist is created, updated and *)
(* archived.  req is the call, resp what it returned, chain.before the     *)
(* storage it found.                                                       *)
(***************************************************************************)
\* longest id list of a createPlaylist / updatePlaylist call
MaxListLen == 2

\* id lists: every list of ids of tracks and of an id without a row (with
\* repetitions), the empty list, and lists that hold the empty id
ListIds == TrackIds \cup {UnknownTrackId}
ListArgs ==
  Strings(ListIds, MaxListLen) \cup {<<>>, <<<<>>>>, <<<<>>, TrackId(1)>>}

\* "aa": the artist of the tracks added here
StorageArtist == <<97, 97>>
\* "b"
OtherName == <<98>>

\* handleAddTrack: the track of an add-track message with the generated id
NewTrack(i, artistName) ==
  [id |-> TrackId(i), title |-> Title(i), artist |-> artistName,
   artistId |-> deriveArtistId(artistName)]

NoStorage == [tracks |-> <<>>, playlists |-> <<>>, artists |-> <<>>]
StorageReady == [phase |-> "ready", added |-> 0, created |-> FALSE, before |-> NoStorage]

InitStorage ==
  /\ db = NoStorage
  /\ req = Idle
  /\ resp = NoResp
  /\ codec = CodecIdle
  /\ chain = StorageReady

\* the call ran against storage d and returned result
Called(call, result) ==
  /\ req' = call
  /\ resp' = [name |-> call.op, ok |-> result.ok, v |-> result.v]
  /\ db' = result.d
  /\ UNCHANGED codec

\* add-track: generateTrackId gives out the next id
StAddTrack ==
  /\ chain.phase = "ready"
  /\ chain.added < MaxTracks
  /\ Called([op |-> "addTrack", id |-> TrackId(chain.added + 1)],
            addTrack(db, NewTrack(chain.added + 1, StorageArtist)))
  /\ chain' = [chain EXCEPT !.phase = "answered", !.added = @ + 1, !.before = db]

\* create-playlist with the id generatePlaylistId gives out
StCreatePlaylist ==
  /\ chain.phase = "ready"
  /\ ~chain.created
  /\ \E trackIds \in ListArgs :
       Called([op |-> "createPlaylist", id |-> PlaylistId, trackIds |-> trackIds],
              createPlaylist(db, PlaylistId, PlaylistName, trackIds))
  /\ chain' = [chain EXCEPT !.phase = "answered", !.created = TRUE, !.before = db]

\* update-playlist with a name, an id list, or both
StUpdatePlaylist ==
  /\ chain.phase = "ready"
  /\ \/ \E name \in {Absent, Given(OtherName)} :
            Called([op |-> "updatePlaylist", id |-> PlaylistId, listed |-> FALSE,
                    trackIds |-> <<>>],
                   updatePlaylist(db, PlaylistId, name, Absent))
     \/ \E trackIds \in ListArgs :
            Called([op |-> "updatePlaylist", id |-> PlaylistId, listed |-> TRUE,
                    trackIds |-> trackIds],
                   updatePlaylist(db, PlaylistId, Given(OtherName), Given(trackIds)))
  /\ chain' = [chain EXCEPT !.phase = "answered", !.before = db]

\* archive-track of any id
StArchiveTrack ==
  /\ chain.phase = "ready"
  /\ \E id \in TrackIds \cup {UnknownTrackId} :
       Called([op |-> "archiveTrack", id |-> id],
              Stored(archiveTrack(db, id), getTrack(db, id).some))
  /\ chain' = [chain EXCEPT !.phase = "answered", !.before = db]

\* archive-playlist
StArchivePlaylist ==
  /\ chain.phase = "ready"
  /\ Called([op |-> "archivePlaylist", id |-> PlaylistId],
            archivePlaylist(db, PlaylistId))
  /\ chain' = [chain EXCEPT !.phase = "answered", !.before = db]

\* the call is over
StReturn ==
  /\ chain.phase = "answered"
  /\ chain' = [chain EXCEPT !.phase = "ready", !.before = NoStorage]
  /\ req' = Idle
  /\ resp' = NoResp
  /\ UNCHANGED <<db, codec>>

NextStorage ==
  \/ StAddTrack
  \/ StCreatePlaylist
  \/ StUpdatePlaylist
  \/ StArchiveTrack
  \/ StArchivePlaylist
  \/ StReturn

SpecStorage == InitStorage /\ [][NextStorage]_vars

\* the resolved sequence of a playlist: the trackIds getPlaylist returns
PlaylistSequence(d, id) == getPlaylist(d, id).v.trackIds

\* C34: after any sequence of addTrack, createPlaylist, updatePlaylist,
\* archiveTrack and archivePlaylist, every track id in the resolved
\* sequence of any playlist (the trackIds of getPlaylist, and the rows of
\* getPlaylistTracks, which agree) is the id of an active track and
\* appears in the sequence at most once.
C34_PlaylistRowsActiveOnce ==
  \A p \in 1..Len(db.playlists) :
    /\ IdsOf(getPlaylistTracks(db, db.playlists[p].id))
         = PlaylistSequence(db, db.playlists[p].id)
    /\ \A i \in 1..Len(PlaylistSequence(db, db.playlists[p].id)) :
         /\ getTrack(db, PlaylistSequence(db, db.playlists[p].id)[i]).some
         /\ \A j \in 1..Len(PlaylistSequence(db, db.playlists[p].id)) :
              PlaylistSequence(db, db.playlists[p].id)[i]
                = PlaylistSequence(db, db.playlists[p].id)[j] => i = j

\* archiveTrack of the track the playlist listed first of two: the
\* playlist keeps the other
C34_Witness ==
  /\ chain.phase = "answered"
  /\ req.op = "archiveTrack"
  /\ Len(PlaylistSequence(chain.before, PlaylistId)) = 2
  /\ req.id = PlaylistSequence(chain.before, PlaylistId)[1]
  /\ PlaylistSequence(db, PlaylistId) = <<PlaylistSequence(chain.before, PlaylistId)[2]>>

\* the ids of a list that are ids of active tracks, in the order of the list
ActiveOf(d, trackIds) == SelectSeq(trackIds, LAMBDA tid : getTrack(d, tid).some)

\* C35: createPlaylist and updatePlaylist called with an id list L store
\* exactly the ids of L that exist as active tracks, in the order of L: the
\* resolved sequence of the playlist equals L with the non-existent ids
\* dropped; a later archiveTrack removes its id from the sequence and
\* leaves the relative order of the remaining ids unchanged.
C35_StoresListInOrder ==
  chain.phase = "answered" =>
    /\ req.op = "createPlaylist" =>
         /\ getPlaylist(db, PlaylistId).some
         /\ PlaylistSequence(db, PlaylistId) = ActiveOf(chain.before, req.trackIds)
    /\ (req.op = "updatePlaylist" /\ req.listed
        /\ getPlaylist(chain.before, PlaylistId).some) =>
         PlaylistSequence(db, PlaylistId) = ActiveOf(chain.before, req.trackIds)
    /\ (req.op = "archiveTrack" /\ getPlaylist(chain.before, PlaylistId).some) =>
         PlaylistSequence(db, PlaylistId)
           = SelectSeq(PlaylistSequence(chain.before, PlaylistId),
                       LAMBDA tid : tid # req.id)

(***************************************************************************)
(* Tracks and artists under concurrent calls (SpecArtists).  addTrack and  *)
(* updateTrack await ensureArtist and then run their own statement, with   *)
(* no transaction around the two: chain.pending holds the calls that are   *)
(* between the two awaits, and any other call may run in between.          *)
(***************************************************************************)
\* tracks added in a run of SpecArtists
MaxArtistTracks == 2
\* calls between their two statements at one time
MaxPending == 1

\* artist names: "aa", "Aa " (the same name after normalize) and the name
\* archiveArtist gives to the tracks of a deleted artist
ArtistNames == {<<97, 97>>, <<65, 97, 32>>, T_unknownArtist}
DerivedIds == {deriveArtistId(name) : name \in ArtistNames}

ArtistsReady == [added |-> 0, pending |-> {}]

InitArtists ==
  /\ db = NoStorage
  /\ req = Idle
  /\ resp = NoResp
  /\ codec = CodecIdle
  /\ chain = ArtistsReady

\* addTrack up to the end of its await of ensureArtist
ArAddTrackBegin ==
  /\ chain.added < MaxArtistTracks
  /\ Cardinality(chain.pending) < MaxPending
  /\ \E name \in ArtistNames :
       /\ req' = [op |-> "addTrack", id |-> TrackId(chain.added + 1), artist |-> name,
                  index |-> chain.added + 1]
       /\ db' = ensureArtist(db, name)
       /\ chain' = [added |-> chain.added + 1,
                    pending |-> chain.pending \cup {req'}]
  /\ UNCHANGED <<resp, codec>>

\* the INSERT of a pending addTrack
ArAddTrackEnd ==
  /\ \E call \in chain.pending :
       /\ call.op = "addTrack"
       /\ req' = call
       /\ db' = InsertTrack(db, NewTrack(call.index, call.artist)).d
       /\ chain' = [chain EXCEPT !.pending = @ \ {call}]
  /\ UNCHANGED <<resp, codec>>

\* updateTrack(id, {artist}) up to the end of its await of ensureArtist
ArUpdateTrackBegin ==
  /\ Cardinality(chain.pending) < MaxPending
  /\ \E i \in 1..MaxArtistTracks, name \in ArtistNames :
       /\ req' = [op |-> "updateTrack", id |-> TrackId(i), artist |-> name, index |-> i]
       /\ req' \notin chain.pending
       /\ db' = ensureArtist(db, name)
       /\ chain' = [chain EXCEPT !.pending = @ \cup {req'}]
  /\ UNCHANGED <<resp, codec>>

\* the UPDATE of a pending updateTrack
ArUpdateTrackEnd ==
  /\ \E call \in chain.pending :
       /\ call.op = "updateTrack"
       /\ req' = call
       /\ db' = UpdateTrackArtist(db, call.id, call.artist).d
       /\ chain' = [chain EXCEPT !.pending = @ \ {call}]
  /\ UNCHANGED <<resp, codec>>

\* createArtist(name, keywords)
ArCreateArtist ==
  /\ \E name \in ArtistNames, keywords \in {<<97, 32, 98>>} :
       /\ req' = [op |-> "createArtist", id |-> deriveArtistId(name), artist |-> name,
                  index |-> 0]
       /\ db' = createArtist(db, name, keywords)
  /\ UNCHANGED <<resp, codec, chain>>

\* archiveArtist(id) of a derived id or of an id without a row
ArArchiveArtist ==
  /\ \E id \in DerivedIds \cup {UnknownArtistId} :
       /\ req' = [op |-> "archiveArtist", id |-> id, artist |-> <<>>, index |-> 0]
       /\ db' = archiveArtist(db, id).d
  /\ UNCHANGED <<resp, codec, chain>>

NextArtists ==
  \/ ArAddTrackBegin
  \/ ArAddTrackEnd
  \/ ArUpdateTrackBegin
  \/ ArUpdateTrackEnd
  \/ ArCreateArtist
  \/ ArArchiveArtist

SpecArtists == InitArtists /\ [][NextArtists]_vars

\* C36: after any sequence and interleaving of addTrack, updateTrack,
\* createArtist and archiveArtist, the artistId of every active track is
\* the id of an existing row of the artists table.
C36_TracksHaveArtistRow ==
  \A i \in 1..Len(db.tracks) :
    \E j \in 1..Len(db.artists) : db.artists[j].id = db.tracks[i].artistId

(***************************************************************************)
(* Schema initialisation of one server instance (SpecInit).  The event     *)
(* loop runs one piece of code at a time, up to its next await; chain      *)
(* holds the fields of TursoDb and MusicServer, how far doInitialize has   *)
(* come, how often it was started, and where each request stands.          *)
(***************************************************************************)
\* requests that arrive at the instance
MaxRequests == 3
Requests == 1..MaxRequests
Entries == {"onConnect", "onMessage", "onRequest"}

\* an initialize() that starts doInitialize on every call
initialize_Unlocked(tursoDb) ==
  [tursoDb EXCEPT !.initPromise = "pending", !.runs = @ + 1, !.phase = "ddl"]

\* TursoDb.initialize up to its return: the first call starts doInitialize,
\* which runs up to its first await, and keeps the promise
initialize(tursoDb) ==
  IF tursoDb.initPromise = "null"
  THEN [tursoDb EXCEPT !.initPromise = "pending", !.runs = @ + 1, !.phase = "ddl"]
  ELSE tursoDb

\* MusicServer.ensureInitialized up to its return or its await
ensureInitialized(server, r) ==
  IF server.initialized THEN [server EXCEPT !.pc[r] = "past"]
  ELSE [initialize(server) EXCEPT !.pc[r] = "awaiting"]

InitInit ==
  /\ db = NoStorage
  /\ req = Idle
  /\ resp = NoResp
  /\ codec = CodecIdle
  /\ chain = [initPromise |-> "null", initialized |-> FALSE, runs |-> 0,
              phase |-> "none", pc |-> [r \in Requests |-> "new"]]

\* a connection, a message or an HTTP request arrives
Enter ==
  /\ \E r \in Requests, entry \in Entries :
       /\ chain.pc[r] = "new"
       /\ req' = [op |-> entry, request |-> r]
       /\ chain' = ensureInitialized(chain, r)
  /\ UNCHANGED <<db, resp, codec>>

\* the executeMultiple of doInitialize settles
SchemaSettles ==
  /\ chain.phase = "ddl"
  /\ \E ok \in BOOLEAN :
       chain' = IF ok THEN [chain EXCEPT !.phase = "migration"]
                ELSE [chain EXCEPT !.phase = "failed", !.initPromise = "rejected"]
  /\ req' = [op |-> "doInitialize", request |-> 0]
  /\ UNCHANGED <<db, resp, codec>>

\* the migration statement of doInitialize settles and doInitialize returns
MigrationSettles ==
  /\ chain.phase = "migration"
  /\ \E ok \in BOOLEAN :
       chain' = IF ok THEN [chain EXCEPT !.phase = "done", !.initPromise = "fulfilled"]
                ELSE [chain EXCEPT !.phase = "failed", !.initPromise = "rejected"]
  /\ req' = [op |-> "doInitialize", request |-> 0]
  /\ UNCHANGED <<db, resp, codec>>

\* a request that awaits db.initialize() goes on: past ensureInitialized
\* with initialized = true, or out of its handler with the rejection
Resume ==
  /\ \E r \in Requests :
       /\ chain.pc[r] = "awaiting"
       /\ chain.initPromise \in {"fulfilled", "rejected"}
       /\ req' = [op |-> "ensureInitialized", request |-> r]
       /\ chain' = IF chain.initPromise = "fulfilled"
                   THEN [chain EXCEPT !.initialized = TRUE, !.pc[r] = "past"]
                   ELSE [chain EXCEPT !.pc[r] = "thrown"]
  /\ UNCHANGED <<db, resp, codec>>

NextInit ==
  \/ Enter
  \/ SchemaSettles
  \/ MigrationSettles
  \/ Resume

SpecInit == InitInit /\ [][NextInit]_vars

\* C37: for any number and interleaving of initialize() calls on one
\* TursoDb instance (from concurrent onConnect, onMessage and onRequest),
\* doInitialize runs at most once, and no request proceeds past
\* ensureInitialized before that run has completed.
C37_InitialisedOnce ==
  /\ chain.runs <= 1
  /\ \A r \in Requests : chain.pc[r] = "past" => chain.phase = "done"
  /\ chain.initialized => chain.phase = "done"

\* every request called initialize() while doInitialize was between its
\* two statements: one run, and all of them wait
C37_Witness ==
  /\ chain.runs = 1
  /\ chain.phase = "migration"
  /\ \A r \in Requests : chain.pc[r] = "awaiting"

\* ---------------------------------------------------------------------
\* Passkey authentication: handlers/auth-handler.ts over the tables
\* webauthn_credentials and auth_challenges of utils/db.ts.  Every handler
\* is split at its awaited statements; the requests of several flows
\* interleave at those points.
\* ---------------------------------------------------------------------

MaxFlows == 2
MaxChallenges == 2
MaxCounter == 1
Flows == 1..MaxFlows
ChallengeIds == 1..MaxChallenges
CredentialIds == 1..2
\* userName of a register-options body: "", " ", "a"
UserNames == {<<>>, <<32>>, <<97>>}

NoAuth == [credentials |-> <<>>, challenges |-> {}]

\* SELECT COUNT(*) FROM webauthn_credentials
getCredentialCount(a) == Cardinality(DOMAIN a.credentials)

\* saveChallenge, first statement: DELETE the rows older than five minutes
PurgeChallenges(a) == [a EXCEPT !.challenges = {c \in @ : c.fresh}]

\* saveChallenge, second statement: INSERT OR REPLACE
InsertChallenge(a, id, type) ==
  [a EXCEPT !.challenges =
     {c \in @ : c.id # id} \cup {[id |-> id, type |-> type, fresh |-> TRUE]}]

\* getAndDeleteChallenge, first statement: the row of that id not older
\* than five minutes, whatever its type
SelectChallenge(a, id) == \E c \in a.challenges : c.id = id /\ c.fresh

\* getAndDeleteChallenge, second statement
DeleteChallenge(a, id) == [a EXCEPT !.challenges = {c \in @ : c.id # id}]

\* saveCredential: INSERT, which throws on a stored id
saveCredential(a, id) ==
  IF id \in DOMAIN a.credentials THEN Failed(a)
  ELSE Stored([a EXCEPT !.credentials =
                 [k \in DOMAIN @ \cup {id} |-> IF k = id THEN 0 ELSE @[k]]], TRUE)

\* getCredentialById
getCredentialById(a, credId) == credId \in DOMAIN a.credentials

\* updateCredentialCounter
updateCredentialCounter(a, credId, counter) ==
  IF credId \in DOMAIN a.credentials
  THEN [a EXCEPT !.credentials[credId] = counter] ELSE a

\* a flow between requests
FlowIdle == [pc |-> "idle", kind |-> "none", challengeId |-> 0, found |-> FALSE,
             credential |-> 0, status |-> 0, closed |-> FALSE]

Answered(flow, status) == [flow EXCEPT !.pc = "answered", !.status = status]

\* handleRegisterOptions up to its second await
handleRegisterOptions(a, flow, userName, challengeId) ==
  IF getCredentialCount(a) > 0 THEN Answered(flow, 403)
  ELSE IF TrimEnd(TrimStart(userName)) = <<>> THEN Answered(flow, 400)
  ELSE [flow EXCEPT !.pc = "purge", !.challengeId = challengeId]

\* handleLoginOptions up to its second await
handleLoginOptions(a, flow, challengeId) ==
  IF getCredentialCount(a) = 0 THEN Answered(flow, 400)
  ELSE [flow EXCEPT !.pc = "purge", !.challengeId = challengeId]

\* handleRegisterVerify up to its second await
handleRegisterVerify(a, flow, body) ==
  IF getCredentialCount(a) > 0 THEN Answered(flow, 403)
  ELSE [flow EXCEPT !.pc = "select", !.challengeId = body.challengeId,
                    !.credential = body.credential]

\* handleLoginVerify up to its second await begins with the SELECT of
\* getAndDeleteChallenge
handleLoginVerify(a, flow, body) ==
  [flow EXCEPT !.pc = "delete", !.challengeId = body.challengeId,
               !.credential = body.credential,
               !.found = SelectChallenge(a, body.challengeId)]

VerifyBodies == [challengeId : ChallengeIds, credential : CredentialIds]

PasskeyReady == [auth |-> NoAuth, issued |-> 0,
                 passed |-> [id \in ChallengeIds |-> 0],
                 flow |-> [p \in Flows |-> FlowIdle]]

InitPasskey ==
  /\ db = NoStorage
  /\ req = Idle
  /\ resp = NoResp
  /\ codec = CodecIdle
  /\ chain = PasskeyReady

\* a request of the kind arrives on the flow p and runs to its second await
Arrives(p, kind, flow) ==
  /\ req' = [op |-> kind, flow |-> p]
  /\ chain' = [chain EXCEPT
       !.flow[p] = [flow EXCEPT !.kind = kind,
                                !.closed = getCredentialCount(chain.auth) > 0],
       !.issued = IF flow.pc = "purge" THEN @ + 1 ELSE @]
  /\ UNCHANGED <<db, resp, codec>>

\* POST /api/auth/register-options; crypto.randomUUID() gives the next id
RegisterOptions ==
  \E p \in Flows, userName \in UserNames :
    /\ chain.flow[p].pc = "idle"
    /\ chain.issued < MaxChallenges
    /\ Arrives(p, "register-options",
               handleRegisterOptions(chain.auth, FlowIdle, userName, chain.issued + 1))

\* POST /api/auth/login-options
LoginOptions ==
  \E p \in Flows :
    /\ chain.flow[p].pc = "idle"
    /\ chain.issued < MaxChallenges
    /\ Arrives(p, "login-options",
               handleLoginOptions(chain.auth, FlowIdle, chain.issued + 1))

\* saveChallenge: its DELETE of the old rows
SaveChallengePurges ==
  \E p \in Flows :
    /\ chain.flow[p].pc = "purge"
    /\ req' = [op |-> "saveChallenge", flow |-> p]
    /\ chain' = [chain EXCEPT !.auth = PurgeChallenges(@), !.flow[p].pc = "insert"]
    /\ UNCHANGED <<db, resp, codec>>

\* saveChallenge: its INSERT OR REPLACE, and the options are answered
SaveChallengeInserts ==
  \E p \in Flows :
    /\ chain.flow[p].pc = "insert"
    /\ req' = [op |-> "saveChallenge", flow |-> p]
    /\ chain' = [chain EXCEPT
         !.auth = InsertChallenge(@, chain.flow[p].challengeId,
                    IF chain.flow[p].kind = "register-options"
                    THEN "register" ELSE "login"),
         !.flow[p] = Answered(@, 200)]
    /\ UNCHANGED <<db, resp, codec>>

\* POST /api/auth/register-verify
RegisterVerify ==
  \E p \in Flows, body \in VerifyBodies :
    /\ chain.flow[p].pc = "idle"
    /\ Arrives(p, "register-verify", handleRegisterVerify(chain.auth, FlowIdle, body))

\* POST /api/auth/login-verify
LoginVerify ==
  \E p \in Flows, body \in VerifyBodies :
    /\ chain.flow[p].pc = "idle"
    /\ Arrives(p, "login-verify", handleLoginVerify(chain.auth, FlowIdle, body))

\* getAndDeleteChallenge of handleRegisterVerify: its SELECT
ChallengeSelected ==
  \E p \in Flows :
    /\ chain.flow[p].pc = "select"
    /\ req' = [op |-> "getAndDeleteChallenge", flow |-> p]
    /\ chain' = [chain EXCEPT
         !.flow[p].found = SelectChallenge(chain.auth, chain.flow[p].challengeId),
         !.flow[p].pc = "delete"]
    /\ UNCHANGED <<db, resp, codec>>

\* getAndDeleteChallenge: its DELETE, and the handler's test of the result;
\* passed counts the requests that went on with the challenge of that id
ChallengeDeleted ==
  \E p \in Flows :
    LET flow == chain.flow[p] IN
    /\ flow.pc = "delete"
    /\ req' = [op |-> "getAndDeleteChallenge", flow |-> p]
    /\ chain' = [chain EXCEPT
         !.auth = DeleteChallenge(@, flow.challengeId),
         !.passed[flow.challengeId] = IF flow.found THEN @ + 1 ELSE @,
         !.flow[p] = IF ~flow.found THEN Answered(@, 400)
                     ELSE IF flow.kind = "register-verify"
                     THEN [@ EXCEPT !.pc = "verify"]
                     ELSE [@ EXCEPT !.pc = "lookup"]]
    /\ UNCHANGED <<db, resp, codec>>

\* handleRegisterVerify: verifyRegistrationResponse settles (verified, or
\* not verified or thrown), then saveCredential is sent
RegistrationVerified ==
  \E p \in Flows, verified \in BOOLEAN :
    /\ chain.flow[p].pc = "verify"
    /\ req' = [op |-> "verifyRegistrationResponse", flow |-> p]
    /\ chain' = [chain EXCEPT
         !.flow[p] = IF verified THEN [@ EXCEPT !.pc = "save"] ELSE Answered(@, 400)]
    /\ UNCHANGED <<db, resp, codec>>

\* handleRegisterVerify: the INSERT of saveCredential; a throw is caught
CredentialSaved ==
  \E p \in Flows :
    LET r == saveCredential(chain.auth, chain.flow[p].credential) IN
    /\ chain.flow[p].pc = "save"
    /\ req' = [op |-> "saveCredential", flow |-> p]
    /\ chain' = [chain EXCEPT
         !.auth = r.d,
         !.flow[p] = Answered(@, IF r.ok THEN 200 ELSE 400)]
    /\ UNCHANGED <<db, resp, codec>>

\* handleLoginVerify: getCredentialById, then verifyAuthenticationResponse
CredentialLookedUp ==
  \E p \in Flows, verified \in BOOLEAN :
    /\ chain.flow[p].pc = "lookup"
    /\ req' = [op |-> "getCredentialById", flow |-> p]
    /\ chain' = [chain EXCEPT
         !.flow[p] = IF getCredentialById(chain.auth, chain.flow[p].credential) /\ verified
                     THEN [@ EXCEPT !.pc = "update"] ELSE Answered(@, 400)]
    /\ UNCHANGED <<db, resp, codec>>

\* handleLoginVerify: updateCredentialCounter with the authenticator's
\* new counter
CounterUpdated ==
  \E p \in Flows, newCounter \in 0..MaxCounter :
    /\ chain.flow[p].pc = "update"
    /\ req' = [op |-> "updateCredentialCounter", flow |-> p]
    /\ chain' = [chain EXCEPT
         !.auth = updateCredentialCounter(@, chain.flow[p].credential, newCounter),
         !.flow[p] = Answered(@, 200)]
    /\ UNCHANGED <<db, resp, codec>>

\* five minutes pass since a challenge was saved
ChallengeAges ==
  \E c \in chain.auth.challenges :
    /\ c.fresh
    /\ req' = [op |-> "ages", flow |-> 0]
    /\ chain' = [chain EXCEPT
         !.auth.challenges = (@ \ {c}) \cup {[c EXCEPT !.fresh = FALSE]}]
    /\ UNCHANGED <<db, resp, codec>>

\* the response is sent; the client may send its next request
FlowReturns ==
  \E p \in Flows :
    /\ chain.flow[p].pc = "answered"
    /\ req' = [op |-> "returns", flow |-> p]
    /\ chain' = [chain EXCEPT !.flow[p] = FlowIdle]
    /\ UNCHANGED <<db, resp, codec>>

NextPasskey ==
  \/ RegisterOptions
  \/ LoginOptions
  \/ SaveChallengePurges
  \/ SaveChallengeInserts
  \/ RegisterVerify
  \/ LoginVerify
  \/ ChallengeSelected
  \/ ChallengeDeleted
  \/ RegistrationVerified
  \/ CredentialSaved
  \/ CredentialLookedUp
  \/ CounterUpdated
  \/ ChallengeAges
  \/ FlowReturns

SpecPasskey == InitPasskey /\ [][NextPasskey]_vars

\* C38: passkey registration is first-come, single-user: at most one
\* credential is ever stored, and a register-options or register-verify
\* request that arrives when a credential exists is answered 403, also
\* when two registration flows run concurrently.
C38_SingleCredential ==
  /\ getCredentialCount(chain.auth) <= 1
  /\ \A p \in Flows :
       LET flow == chain.flow[p] IN
       (flow.closed /\ flow.kind \in {"register-options", "register-verify"})
         => flow.pc = "answered" /\ flow.status = 403

\* C39: an authentication challenge is single-use: at most one
\* register-verify or login-verify request passes the challenge check of
\* getAndDeleteChallenge for a given challenge id.
C39_ChallengeSingleUse == \A id \in ChallengeIds : chain.passed[id] <= 1

\* ---------------------------------------------------------------------
\* Web UI upload (web/app.js): handleFiles, addTrackFromFile, safeSend,
\* uploadMp3 and ws.onmessage, with the connection and the server's
\* answers to add-track and to the MP3 message.  state-update messages
\* do not touch the variables kept here.
\* ---------------------------------------------------------------------

MaxFiles == 2
maxRetries == 5

UploadIdle == [isUploading |-> FALSE, pc |-> "idle", files |-> 0, i |-> 0,
               attempt |-> 0, pendingUploads |-> 0, uploadResolve |-> "null",
               mp3 |-> [pc |-> "none", attempt |-> 0],
               ws |-> "open", server |-> <<>>, inbox |-> <<>>, rejected |-> FALSE]

\* one iteration of the loop of safeSend
safeSend(ws, attempt) ==
  IF ws = "open" THEN "sent"
  ELSE IF attempt = maxRetries THEN "failed"
  ELSE "waitForConnection"

\* handleFiles: the loop goes to the next file, or the batch is finished
NextFile(u) ==
  IF u.i < u.files THEN [u EXCEPT !.i = @ + 1, !.pc = "reading"]
  ELSE [u EXCEPT !.isUploading = FALSE, !.pc = "idle"]

\* addTrackFromFile after an iteration of safeSend for add-track
AddTrackSend(u) ==
  LET sent == safeSend(u.ws, u.attempt) IN
  IF sent = "sent"
  THEN [u EXCEPT !.server = Append(@, "add-track"), !.pc = "waiting",
                 !.uploadResolve = "pending"]
  ELSE IF sent = "failed"
  THEN NextFile([u EXCEPT !.pendingUploads = @ - 1])
  ELSE [u EXCEPT !.pc = "sending"]

\* uploadMp3 after an iteration of its safeSend, whose result is dropped
Mp3Send(u) ==
  LET sent == safeSend(u.ws, u.mp3.attempt) IN
  IF sent = "sent"
  THEN [u EXCEPT !.server = Append(@, "upload-mp3"), !.mp3 = [pc |-> "none", attempt |-> 0]]
  ELSE IF sent = "failed"
  THEN [u EXCEPT !.mp3 = [pc |-> "none", attempt |-> 0]]
  ELSE [u EXCEPT !.mp3.pc = "sending"]

\* uploadResolve?.(): the promise addTrackFromFile returned is resolved
\* and handleFiles goes on; a resolved promise or null does nothing
uploadResolved(u) ==
  IF u.uploadResolve = "pending" /\ u.pc = "waiting"
  THEN NextFile([u EXCEPT !.uploadResolve = "resolved"])
  ELSE u

\* handleFiles(fileList) with count MP3 files in the list, up to the first
\* await
handleFiles(u, count) ==
  IF u.isUploading THEN [u EXCEPT !.rejected = TRUE]
  ELSE IF count = 0 THEN [u EXCEPT !.rejected = FALSE]
  ELSE [u EXCEPT !.rejected = FALSE, !.isUploading = TRUE, !.files = count,
                 !.i = 1, !.pc = "reading"]

\* ws.onmessage
onmessage(u, type) ==
  IF type = "track-added" /\ u.pendingUploads > 0
  THEN [u EXCEPT !.pendingUploads = @ - 1, !.mp3 = [pc |-> "arrayBuffer", attempt |-> 0]]
  ELSE IF type = "upload-complete" THEN uploadResolved(u)
  ELSE u

InitUpload ==
  /\ db = NoStorage
  /\ req = Idle
  /\ resp = NoResp
  /\ codec = CodecIdle
  /\ chain = UploadIdle

UploadStep(op, u) ==
  /\ req' = [op |-> op]
  /\ chain' = u
  /\ UNCHANGED <<db, resp, codec>>

\* the user drops or picks files
HandleFiles ==
  \E count \in 0..MaxFiles :
    /\ req' = [op |-> "handleFiles"]
    /\ chain' = handleFiles(chain, count)
    /\ UNCHANGED <<db, resp, codec>>

\* addTrackFromFile: readId3 and readDuration are settled, the file is
\* pushed on pendingUploads and safeSend runs its first iteration
TagsRead ==
  /\ chain.pc = "reading"
  /\ UploadStep("addTrackFromFile",
       AddTrackSend([chain EXCEPT !.pendingUploads = @ + 1, !.attempt = 0]))

\* safeSend of add-track: waitForConnection is settled, next iteration
AddTrackRetries ==
  /\ chain.pc = "sending"
  /\ UploadStep("safeSend", AddTrackSend([chain EXCEPT !.attempt = @ + 1]))

\* uploadMp3: file.arrayBuffer() is settled; a rejection is caught in
\* ws.onmessage, which calls uploadResolve
ArrayBufferSettles ==
  /\ chain.mp3.pc = "arrayBuffer"
  /\ \E ok \in BOOLEAN :
       UploadStep("uploadMp3",
         IF ok THEN Mp3Send(chain)
         ELSE uploadResolved([chain EXCEPT !.mp3 = [pc |-> "none", attempt |-> 0]]))

\* safeSend of the MP3 message: waitForConnection is settled
Mp3Retries ==
  /\ chain.mp3.pc = "sending"
  /\ UploadStep("safeSend mp3", Mp3Send([chain EXCEPT !.mp3.attempt = @ + 1]))

\* the server's onMessage answers the sender: track-added or error for
\* add-track, upload-complete or error for the MP3
ServerAnswers ==
  /\ chain.server # <<>>
  /\ \E ok \in BOOLEAN :
       UploadStep("onMessage",
         [chain EXCEPT !.server = Tail(@),
            !.inbox = Append(@, IF ~ok THEN "error"
                                ELSE IF Head(chain.server) = "add-track"
                                THEN "track-added" ELSE "upload-complete")])

\* a message of the server reaches ws.onmessage
MessageArrives ==
  /\ chain.inbox # <<>>
  /\ UploadStep("onmessage",
       onmessage([chain EXCEPT !.inbox = Tail(@)], Head(chain.inbox)))

\* the connection drops: what the server had not answered or delivered
\* never arrives
ConnectionDrops ==
  /\ chain.ws = "open"
  /\ UploadStep("onclose", [chain EXCEPT !.ws = "closed", !.server = <<>>, !.inbox = <<>>])

\* ws.onclose's setTimeout(connect, delay), then ws.onopen
Reconnects ==
  /\ chain.ws = "closed"
  /\ UploadStep("onopen", [chain EXCEPT !.ws = "open"])

NextUpload ==
  \/ HandleFiles
  \/ TagsRead
  \/ AddTrackRetries
  \/ ArrayBufferSettles
  \/ Mp3Retries
  \/ ServerAnswers
  \/ MessageArrives
  \/ ConnectionDrops
  \/ Reconnects

\* every promise the page awaits settles, the server answers what it
\* received and delivers its answers, and the page reconnects; the user
\* and the drops of the connection are not obliged to anything
UploadFairness ==
  /\ WF_chain(TagsRead)
  /\ WF_chain(AddTrackRetries)
  /\ WF_chain(ArrayBufferSettles)
  /\ WF_chain(Mp3Retries)
  /\ WF_chain(ServerAnswers)
  /\ WF_chain(MessageArrives)
  /\ WF_chain(Reconnects)

SpecUpload == InitUpload /\ [][NextUpload]_vars /\ UploadFairness

\* C40: once handleFiles has started an upload batch, the batch eventually
\* finishes and isUploading returns to false, whatever the server answers
\* to add-track, whether or not the MP3 send succeeds and whether or not
\* the connection drops.
C40_BatchFinishes == chain.isUploading ~> ~chain.isUploading

====
